---- MODULE Spec2Model ----
(***************************************************************************)
(* AutoMix (src/js/automix-howler.js): the Camelot key tables, the         *)
(* transition planner, the two caches, the crossfade engine                *)
(* (AutoMixEngineHowler) and the lookahead controller (AutoMixController). *)
(*                                                                         *)
(* JavaScript strings are modelled as tuples of one-character strings, so  *)
(* that slice, parseInt and padStart are computed character by character.  *)
(* Times of the planner are integers in units of 1/20 s, which keeps the   *)
(* products with transitionOverlap (a number of hundredths) exact for      *)
(* whole-second durations.                                                 *)
(***************************************************************************)
EXTENDS Integers, Sequences, FiniteSets, TLC

VARIABLES
    \* ---- key compatibility (CamelotWheel, checkKeyCompatibility) ----
    key1, key2,          \* the two key names of the current query
    compat12, compat21,  \* CamelotWheel.isCompatible(key1,key2) / (key2,key1)
    check12, check21,    \* checkKeyCompatibility(key1,key2) / (key2,key1)
    energy12, energy21,  \* CamelotWheel.getEnergyTransition(key1,key2) / (key2,key1)
    \* ---- transition planner ----
    planHowlDuration,    \* currentHowl.duration(), 0 when currentHowl is null
    planCurrent,         \* currentAnalysis (Null or an analysis)
    planNext,            \* nextAnalysis (Null or an analysis)
    planOptions,         \* the options both planners read
    planTiming,          \* AutoMixEngineHowler._calculateTransitionTiming()
    planTimingEngine,    \* AutoMixEngine.calculateTransitionTiming(current, next)
    \* ---- AutoMixEngineHowler.trackCache ----
    trackCache,          \* the Map, as the sequence of its values in key order
    howlsCreated,        \* number of Howl objects constructed so far
    loadsInFlight,       \* loadTrack calls past the cache check, awaiting fetch/decode
    tracksNamed,         \* number of distinct tracks that entered the cache so far
    reloads,             \* misses for a track evicted earlier or already being loaded
    insertOrder,         \* history: track ids in the order their entries were created
    cacheAdds,           \* history: number of _addToCache calls
    \* ---- AutoMixEngine.analysisCache ----
    analysisCache,       \* the Map, as the sequence of its keys in key order
    analysesInFlight,    \* getTrackAnalysis calls awaiting preAnalyzeTrack
    analysesNamed,       \* number of distinct tracks whose analysis was cached so far
    \* ---- AudioAnalyzer and detectBeats ----
    frames,              \* a signal: one amplitude per frame
    analysis,            \* AudioAnalyzer.analyze of the buffer made of the frames
    beatPositions,       \* detectBeats of the envelope made of the frames
    tempoBeats,          \* a list of beats
    tempoRoundsUp,       \* per beat: the rounding of the interval that ends at it
    tempo,               \* AudioAnalyzer._calculateTempo(tempoBeats)
    \* ---- _executeCrossfade and _volumeCrossfade ----
    fade,                \* the crossfade under way: its steps and the two gains
    \* ---- analyzeTrackWaveform ----
    wave,                \* the last track analysed and the result
    \* ---- AutoMixEngineHowler and AutoMixController ----
    engine,              \* the engine's fields
    howls,               \* the Howl objects constructed so far
    calls,               \* executeTransition invocations
    playsPending,        \* play() invocations awaiting audioContext.resume()
    playTracks,          \* playTrack invocations awaiting loadTrack
    ctrl,                \* the controller's fields and its interval timers
    ticks,               \* _checkTransition invocations
    player,              \* the player, as far as the controller drives it
    \* ---- _calculateAdaptiveThreshold on flux lists ----
    beatFlux,            \* the flux values of one envelope
    beatThreshold,       \* _calculateAdaptiveThreshold(beatFlux)
    beatsFound           \* _detectBeatsAdvanced(envelope, beatFlux)

keyVars == <<key1, key2, compat12, compat21, check12, check21, energy12, energy21>>

planVars == <<planHowlDuration, planCurrent, planNext, planOptions, planTiming,
              planTimingEngine>>

cacheVars == <<trackCache, howlsCreated, loadsInFlight, tracksNamed, reloads, insertOrder,
               cacheAdds>>

analysisCacheVars == <<analysisCache, analysesInFlight, analysesNamed>>

signalVars == <<frames, analysis, beatPositions>>

tempoVars == <<tempoBeats, tempoRoundsUp, tempo>>

fadeVars == <<fade>>

waveVars == <<wave>>

beatVars == <<beatFlux, beatThreshold, beatsFound>>

sideVars == <<signalVars, tempoVars, fadeVars, waveVars, beatVars>>

analysisVars == <<analysisCacheVars, sideVars>>

engineVars == <<engine, howls, calls, playsPending, playTracks, ctrl, ticks, player>>

vars == <<keyVars, planVars, cacheVars, analysisVars, engineVars>>

-----------------------------------------------------------------------------
(* JavaScript string helpers                                               *)

Digits == <<"0", "1", "2", "3", "4", "5", "6", "7", "8", "9">>

IsDigit(ch) == \E i \in 1..10 : Digits[i] = ch

DigitVal(ch) == (CHOOSE i \in 1..10 : Digits[i] = ch) - 1

NaN == -1

\* s.slice(from, to) with 0-based from and exclusive to; to = -1 means "to the end"
Slice(s, from, to) ==
    LET hi == IF to = -1 \/ to > Len(s) THEN Len(s) ELSE to
    IN  IF from >= hi THEN <<>> ELSE SubSeq(s, from + 1, hi)

RECURSIVE ParseDigits(_, _)
ParseDigits(s, acc) ==
    IF s = <<>> \/ ~IsDigit(Head(s)) THEN acc
    ELSE ParseDigits(Tail(s), acc * 10 + DigitVal(Head(s)))

\* parseInt(s): the leading decimal digits of s, NaN when there are none
ParseInt(s) == IF s = <<>> \/ ~IsDigit(Head(s)) THEN NaN ELSE ParseDigits(s, 0)

\* String(n) for n in 0..99 and for NaN
NumToString(n) ==
    IF n = NaN THEN <<"N", "a", "N">>
    ELSE IF n < 10 THEN <<Digits[n + 1]>>
    ELSE <<Digits[(n \div 10) + 1], Digits[(n % 10) + 1]>>

\* s.padStart(2, '0')
PadStart2(s) == IF Len(s) = 0 THEN <<"0", "0">> ELSE IF Len(s) = 1 THEN <<"0">> \o s ELSE s

\* Array.includes
Includes(seq, x) == \E i \in 1..Len(seq) : seq[i] = x

\* obj[key] || key for a table given as a set of <<key, value>> pairs
HasKey(table, key) == \E e \in table : e[1] = key

Lookup(table, key) == (CHOOSE e \in table : e[1] = key)[2]

-----------------------------------------------------------------------------
(* CamelotWheel                                                            *)

keyToCamelot ==
    { << <<"A","-">>,     <<"0","1","A">> >>,
      << <<"B","b">>,     <<"0","2","A">> >>,
      << <<"B","-">>,     <<"0","3","A">> >>,
      << <<"C","-">>,     <<"0","4","A">> >>,
      << <<"C","#">>,     <<"0","5","A">> >>,
      << <<"D","-">>,     <<"0","6","A">> >>,
      << <<"D","#">>,     <<"0","7","A">> >>,
      << <<"E","-">>,     <<"0","8","A">> >>,
      << <<"F","-">>,     <<"0","9","A">> >>,
      << <<"F","#">>,     <<"1","0","A">> >>,
      << <<"G","-">>,     <<"1","1","A">> >>,
      << <<"A","b">>,     <<"1","2","A">> >>,
      << <<"A","m">>,     <<"0","1","B">> >>,
      << <<"B","b","m">>, <<"0","2","B">> >>,
      << <<"B","m">>,     <<"0","3","B">> >>,
      << <<"C","m">>,     <<"0","4","B">> >>,
      << <<"C","#","m">>, <<"0","5","B">> >>,
      << <<"D","m">>,     <<"0","6","B">> >>,
      << <<"D","#","m">>, <<"0","7","B">> >>,
      << <<"E","m">>,     <<"0","8","B">> >>,
      << <<"F","m">>,     <<"0","9","B">> >>,
      << <<"F","#","m">>, <<"1","0","B">> >>,
      << <<"G","m">>,     <<"1","1","B">> >>,
      << <<"G","#","m">>, <<"1","2","B">> >> }

\* the mutant drops the "-1 (energy drop)" entry
getCompatibleKeys_NoMinus1(camelotNumber) ==
    LET num    == ParseInt(Slice(camelotNumber, 0, 2))
        letter == Slice(camelotNumber, 2, -1)
        plus1  == IF num = 12 THEN 1 ELSE IF num = NaN THEN NaN ELSE num + 1
        otherMode == IF letter = <<"A">> THEN <<"B">> ELSE <<"A">>
    IN  << PadStart2(NumToString(num)) \o letter,
           PadStart2(NumToString(plus1)) \o letter,
           PadStart2(NumToString(num)) \o otherMode >>

getCompatibleKeys(camelotNumber) ==
    LET num    == ParseInt(Slice(camelotNumber, 0, 2))
        letter == Slice(camelotNumber, 2, -1)
        plus1  == IF num = 12 THEN 1 ELSE IF num = NaN THEN NaN ELSE num + 1
        minus1 == IF num = 1 THEN 12 ELSE IF num = NaN THEN NaN ELSE num - 1
        otherMode == IF letter = <<"A">> THEN <<"B">> ELSE <<"A">>
    IN  << PadStart2(NumToString(num)) \o letter,
           PadStart2(NumToString(plus1)) \o letter,
           PadStart2(NumToString(minus1)) \o letter,
           PadStart2(NumToString(num)) \o otherMode >>

isCompatible(k1, k2) ==
    LET camelot1 == IF HasKey(keyToCamelot, k1) THEN Lookup(keyToCamelot, k1) ELSE k1
        camelot2 == IF HasKey(keyToCamelot, k2) THEN Lookup(keyToCamelot, k2) ELSE k2
    IN  IF camelot1 = <<>> \/ camelot2 = <<>> THEN FALSE
        ELSE Includes(getCompatibleKeys(camelot1), camelot2)

\* getEnergyTransition without the step from 12 to 1 and from 1 to 12
getEnergyTransition_NoWrap(fromKey, toKey) ==
    LET from == IF HasKey(keyToCamelot, fromKey) THEN Lookup(keyToCamelot, fromKey) ELSE fromKey
        to == IF HasKey(keyToCamelot, toKey) THEN Lookup(keyToCamelot, toKey) ELSE toKey
        fromNum == ParseInt(Slice(from, 0, 2))
        toNum == ParseInt(Slice(to, 0, 2))
    IN  IF from = <<>> \/ to = <<>> THEN "neutral"
        ELSE IF Slice(from, 2, -1) # Slice(to, 2, -1) \/ fromNum = NaN \/ toNum = NaN
        THEN "neutral"
        ELSE IF toNum = fromNum + 1 THEN "boost"
        ELSE IF toNum = fromNum - 1 THEN "drop"
        ELSE "neutral"

\* a comparison with NaN (parseInt of a name without leading digits) is false
getEnergyTransition(fromKey, toKey) ==
    LET from == IF HasKey(keyToCamelot, fromKey) THEN Lookup(keyToCamelot, fromKey) ELSE fromKey
        to == IF HasKey(keyToCamelot, toKey) THEN Lookup(keyToCamelot, toKey) ELSE toKey
        fromNum == ParseInt(Slice(from, 0, 2))
        toNum == ParseInt(Slice(to, 0, 2))
        fromLetter == Slice(from, 2, -1)
        toLetter == Slice(to, 2, -1)
        numbers == fromNum # NaN /\ toNum # NaN
    IN  IF from = <<>> \/ to = <<>> THEN "neutral"
        ELSE IF fromLetter = toLetter
                /\ numbers /\ (toNum = fromNum + 1 \/ (fromNum = 12 /\ toNum = 1))
        THEN "boost"
        ELSE IF fromLetter = toLetter
                /\ numbers /\ (toNum = fromNum - 1 \/ (fromNum = 1 /\ toNum = 12))
        THEN "drop"
        ELSE "neutral"

-----------------------------------------------------------------------------
(* CAMELOT_WHEEL and checkKeyCompatibility                                 *)

\* <<key, [number, letter]>>; the display name of an entry plays no part
CAMELOT_WHEEL ==
    { << <<"C">>,         [number |-> 8,  letter |-> "B"] >>,
      << <<"G">>,         [number |-> 9,  letter |-> "B"] >>,
      << <<"D">>,         [number |-> 10, letter |-> "B"] >>,
      << <<"A">>,         [number |-> 11, letter |-> "B"] >>,
      << <<"E">>,         [number |-> 12, letter |-> "B"] >>,
      << <<"B">>,         [number |-> 1,  letter |-> "B"] >>,
      << <<"F","#">>,     [number |-> 2,  letter |-> "B"] >>,
      << <<"D","b">>,     [number |-> 3,  letter |-> "B"] >>,
      << <<"A","b">>,     [number |-> 4,  letter |-> "B"] >>,
      << <<"E","b">>,     [number |-> 5,  letter |-> "B"] >>,
      << <<"B","b">>,     [number |-> 6,  letter |-> "B"] >>,
      << <<"F">>,         [number |-> 7,  letter |-> "B"] >>,
      << <<"A","m">>,     [number |-> 8,  letter |-> "A"] >>,
      << <<"E","m">>,     [number |-> 9,  letter |-> "A"] >>,
      << <<"B","m">>,     [number |-> 10, letter |-> "A"] >>,
      << <<"F","#","m">>, [number |-> 11, letter |-> "A"] >>,
      << <<"C","#","m">>, [number |-> 12, letter |-> "A"] >>,
      << <<"G","#","m">>, [number |-> 1,  letter |-> "A"] >>,
      << <<"E","b","m">>, [number |-> 2,  letter |-> "A"] >>,
      << <<"B","b","m">>, [number |-> 3,  letter |-> "A"] >>,
      << <<"F","m">>,     [number |-> 4,  letter |-> "A"] >>,
      << <<"C","m">>,     [number |-> 5,  letter |-> "A"] >>,
      << <<"G","m">>,     [number |-> 6,  letter |-> "A"] >>,
      << <<"D","m">>,     [number |-> 7,  letter |-> "A"] >> }

Abs(x) == IF x < 0 THEN -x ELSE x

Min(a, b) == IF a < b THEN a ELSE b

Max(a, b) == IF a > b THEN a ELSE b

NoDistance == -1

\* the mutant leaves out the "same number (relative major/minor)" rule
checkKeyCompatibility_NoRelative(k1name, k2name) ==
    IF ~HasKey(CAMELOT_WHEEL, k1name) \/ ~HasKey(CAMELOT_WHEEL, k2name)
    THEN [compatible |-> FALSE, distance |-> NoDistance, reason |-> "Unknown key"]
    ELSE
    LET k1 == Lookup(CAMELOT_WHEEL, k1name)
        k2 == Lookup(CAMELOT_WHEEL, k2name)
        numDiff == Abs(k1.number - k2.number)
        circularDiff == Min(numDiff, 12 - numDiff)
    IN  IF k1name = k2name
        THEN [compatible |-> TRUE, distance |-> 0, reason |-> "Same key"]
        ELSE IF circularDiff = 1
        THEN [compatible |-> TRUE, distance |-> 2, reason |-> "Adjacent on Camelot wheel"]
        ELSE IF circularDiff = 2
        THEN [compatible |-> TRUE, distance |-> 3, reason |-> "Energy boost zone"]
        ELSE IF k1.letter = k2.letter /\ circularDiff <= 3
        THEN [compatible |-> TRUE, distance |-> 3, reason |-> "Same mode"]
        ELSE [compatible |-> FALSE, distance |-> circularDiff, reason |-> "Dissonant"]

checkKeyCompatibility(k1name, k2name) ==
    IF ~HasKey(CAMELOT_WHEEL, k1name) \/ ~HasKey(CAMELOT_WHEEL, k2name)
    THEN [compatible |-> FALSE, distance |-> NoDistance, reason |-> "Unknown key"]
    ELSE
    LET k1 == Lookup(CAMELOT_WHEEL, k1name)
        k2 == Lookup(CAMELOT_WHEEL, k2name)
        numDiff == Abs(k1.number - k2.number)
        circularDiff == Min(numDiff, 12 - numDiff)
    IN  IF k1name = k2name
        THEN [compatible |-> TRUE, distance |-> 0, reason |-> "Same key"]
        ELSE IF k1.number = k2.number
        THEN [compatible |-> TRUE, distance |-> 1, reason |-> "Relative major/minor"]
        ELSE IF circularDiff = 1
        THEN [compatible |-> TRUE, distance |-> 2, reason |-> "Adjacent on Camelot wheel"]
        ELSE IF circularDiff = 2
        THEN [compatible |-> TRUE, distance |-> 3, reason |-> "Energy boost zone"]
        ELSE IF k1.letter = k2.letter /\ circularDiff <= 3
        THEN [compatible |-> TRUE, distance |-> 3, reason |-> "Same mode"]
        ELSE [compatible |-> FALSE, distance |-> circularDiff, reason |-> "Dissonant"]

-----------------------------------------------------------------------------
(* Key queries: every pair of key names, defined in either table or not    *)

WheelKeysHowler == {e[1] : e \in keyToCamelot}

WheelKeys == {e[1] : e \in CAMELOT_WHEEL}

\* key names of neither table, and the empty string
UnknownKeys == { <<"H">>, <<>> }

KeyNames == WheelKeysHowler \cup WheelKeys \cup UnknownKeys

QueryKeys(a, b) ==
    /\ key1' = a
    /\ key2' = b
    /\ compat12' = isCompatible(a, b)
    /\ compat21' = isCompatible(b, a)
    /\ check12' = checkKeyCompatibility(a, b)
    /\ check21' = checkKeyCompatibility(b, a)
    /\ energy12' = getEnergyTransition(a, b)
    /\ energy21' = getEnergyTransition(b, a)
    /\ UNCHANGED <<planVars, cacheVars, analysisVars, engineVars>>

KeysIdle ==
    /\ key1 = <<>>
    /\ key2 = <<>>
    /\ compat12 = FALSE
    /\ compat21 = FALSE
    /\ check12 = checkKeyCompatibility(<<>>, <<>>)
    /\ check21 = checkKeyCompatibility(<<>>, <<>>)
    /\ energy12 = getEnergyTransition(<<>>, <<>>)
    /\ energy21 = getEnergyTransition(<<>>, <<>>)

-----------------------------------------------------------------------------
(* Transition planner                                                      *)
(* Times are integers in units of 1/20 s; a tempo is a whole number of BPM;*)
(* a beat strength is a number of tenths; transitionOverlap is a number of *)
(* hundredths; tempoRatio is the fraction <<numerator, denominator>>.      *)

Null == [null |-> TRUE]

Secs(n) == n * 20

Last(seq) == seq[Len(seq)]

\* Array.find over the elements that pass the test, in order: the first
\* one, Null when there is none
FirstOf(passing) == IF passing = <<>> THEN Null ELSE Head(passing)

\* the mutant keeps the first beat before the target instead of the last
CalculateTransitionTiming_FirstBeat(howlDuration, currentAnalysis, nextAnalysis, options) ==
    IF currentAnalysis = Null \/ nextAnalysis = Null
    THEN [currentOut |-> (howlDuration * options.transitionOverlap) \div 100,
          nextIn |-> 0,
          duration |-> options.crossfadeDuration,
          tempoRatio |-> <<1, 1>>]
    ELSE
    LET targetTime == (currentAnalysis.duration * options.transitionOverlap) \div 100
        BeforeTarget(b) == b.time <= targetTime
        beatsBeforeTarget == SelectSeq(currentAnalysis.beats, BeforeTarget)
        mixOutPoint == IF Len(currentAnalysis.beats) > 0 /\ Len(beatsBeforeTarget) > 0
                       THEN Head(beatsBeforeTarget).time
                       ELSE targetTime
    IN  [currentOut |-> mixOutPoint,
         nextIn |-> 0,
         duration |-> options.crossfadeDuration,
         tempoRatio |-> <<1, 1>>]

\* the mutant leaves the bounds 0.9 and 1.1 out of the range
CalculateTransitionTiming_OpenRange(howlDuration, currentAnalysis, nextAnalysis, options) ==
    IF currentAnalysis = Null \/ nextAnalysis = Null
    THEN [currentOut |-> (howlDuration * options.transitionOverlap) \div 100,
          nextIn |-> 0,
          duration |-> options.crossfadeDuration,
          tempoRatio |-> <<1, 1>>]
    ELSE
    LET targetTime == (currentAnalysis.duration * options.transitionOverlap) \div 100
        BeforeTarget(b) == b.time <= targetTime
        beatsBeforeTarget == SelectSeq(currentAnalysis.beats, BeforeTarget)
        mixOutPoint == IF Len(currentAnalysis.beats) > 0 /\ Len(beatsBeforeTarget) > 0
                       THEN Last(beatsBeforeTarget).time
                       ELSE targetTime
        Strong(b) == b.strength > 5
        firstStrongBeat == FirstOf(SelectSeq(nextAnalysis.beats, Strong))
        mixInPoint == IF Len(nextAnalysis.beats) > 0 /\ firstStrongBeat # Null
                         /\ firstStrongBeat.time < Secs(5)
                      THEN firstStrongBeat.time
                      ELSE 0
        \* 0.9 < ratio < 1.1
        inRange == /\ 10 * currentAnalysis.tempo > 9 * nextAnalysis.tempo
                   /\ 10 * currentAnalysis.tempo < 11 * nextAnalysis.tempo
        tempoRatio == IF options.tempoMatch /\ currentAnalysis.tempo > 0
                         /\ nextAnalysis.tempo > 0 /\ inRange
                      THEN <<currentAnalysis.tempo, nextAnalysis.tempo>>
                      ELSE <<1, 1>>
    IN  [currentOut |-> mixOutPoint,
         nextIn |-> mixInPoint,
         duration |-> options.crossfadeDuration,
         tempoRatio |-> tempoRatio]

CalculateTransitionTiming(howlDuration, currentAnalysis, nextAnalysis, options) ==
    IF currentAnalysis = Null \/ nextAnalysis = Null
    THEN [currentOut |-> (howlDuration * options.transitionOverlap) \div 100,
          nextIn |-> 0,
          duration |-> options.crossfadeDuration,
          tempoRatio |-> <<1, 1>>]
    ELSE
    LET targetTime == (currentAnalysis.duration * options.transitionOverlap) \div 100
        BeforeTarget(b) == b.time <= targetTime
        beatsBeforeTarget == SelectSeq(currentAnalysis.beats, BeforeTarget)
        mixOutPoint == IF Len(currentAnalysis.beats) > 0 /\ Len(beatsBeforeTarget) > 0
                       THEN Last(beatsBeforeTarget).time
                       ELSE targetTime
        Strong(b) == b.strength > 5
        firstStrongBeat == FirstOf(SelectSeq(nextAnalysis.beats, Strong))
        mixInPoint == IF Len(nextAnalysis.beats) > 0 /\ firstStrongBeat # Null
                         /\ firstStrongBeat.time < Secs(5)
                      THEN firstStrongBeat.time
                      ELSE 0
        \* ratio = current.tempo / next.tempo, 0.9 <= ratio <= 1.1
        inRange == /\ 10 * currentAnalysis.tempo >= 9 * nextAnalysis.tempo
                   /\ 10 * currentAnalysis.tempo <= 11 * nextAnalysis.tempo
        tempoRatio == IF options.tempoMatch /\ currentAnalysis.tempo > 0
                         /\ nextAnalysis.tempo > 0 /\ inRange
                      THEN <<currentAnalysis.tempo, nextAnalysis.tempo>>
                      ELSE <<1, 1>>
    IN  [currentOut |-> mixOutPoint,
         nextIn |-> mixInPoint,
         duration |-> options.crossfadeDuration,
         tempoRatio |-> tempoRatio]

\* AutoMixEngine.calculateTransitionTiming; outroTrimPoint 0 is falsy
calculateTransitionTiming(currentAnalysis, nextAnalysis, options) ==
    LET crossfadeDuration == options.crossfadeDuration
        default == currentAnalysis.duration - crossfadeDuration
        remaining == currentAnalysis.duration - currentAnalysis.outroTrimPoint
        trimmed == IF options.outroTrimEnabled /\ currentAnalysis.outroTrimPoint # 0
                      /\ remaining > Secs(3)
                   THEN currentAnalysis.outroTrimPoint - crossfadeDuration
                   ELSE default
    IN  [mixOutPoint |-> Max(trimmed, crossfadeDuration),
         mixInPoint |-> 0,
         duration |-> crossfadeDuration]

-----------------------------------------------------------------------------
(* Planner inputs                                                          *)

MaxBeats == 2

\* track lengths, seconds
Durations == {10, 40, 200}

\* beat times of the current track, seconds
CurrentBeatTimes == {4, 150, 195}

\* beat times of the next track, seconds, and beat strengths, tenths
NextBeatTimes == {1, 6}

Strengths == {3, 8}

CurrentTempos == {0, 90, 100, 110, 120}

NextTempos == {0, 100, 126, 140}

\* crossfadeDuration: the defaults of the two engines
CrossfadeDurations == {12, 16}

Ascending(seq) == \A i \in 1..(Len(seq) - 1) : seq[i].time < seq[i + 1].time

BeatLists(times, strengths, maxLen) ==
    LET Beat == [time : {Secs(t) : t \in times}, strength : strengths]
    IN  UNION { {seq \in [1..n -> Beat] : Ascending(seq)} : n \in 0..maxLen }

CurrentBeatLists == BeatLists(CurrentBeatTimes, {8}, MaxBeats)

NextBeatLists == BeatLists(NextBeatTimes, Strengths, 1)

\* outroTrimPoint of a track of the given length: the length itself, or a
\* point in its tail
OutroTrimPoints(duration) == {duration, Max(duration - Secs(2), 0), Max(duration - Secs(5), 0)}

DefaultOptions ==
    [crossfadeDuration |-> Secs(16), transitionOverlap |-> 95, tempoMatch |-> TRUE,
     outroTrimEnabled |-> TRUE]

DefaultCurrent ==
    [duration |-> Secs(200), beats |-> <<>>, tempo |-> 0, outroTrimPoint |-> Secs(200)]

DefaultNext ==
    [duration |-> Secs(200), beats |-> <<>>, tempo |-> 0, outroTrimPoint |-> Secs(200)]

\* both planners run on the inputs
Replan(howlDuration, current, next, options) ==
    /\ planHowlDuration' = howlDuration
    /\ planCurrent' = current
    /\ planNext' = next
    /\ planOptions' = options
    /\ planTiming' = CalculateTransitionTiming(howlDuration, current, next, options)
    /\ planTimingEngine' =
         IF current = Null THEN Null ELSE calculateTransitionTiming(current, next, options)
    /\ UNCHANGED <<keyVars, cacheVars, analysisVars, engineVars>>

PlanIdle ==
    /\ planHowlDuration = Secs(200)
    /\ planCurrent = DefaultCurrent
    /\ planNext = DefaultNext
    /\ planOptions = DefaultOptions
    /\ planTiming = CalculateTransitionTiming(Secs(200), DefaultCurrent, DefaultNext, DefaultOptions)
    /\ planTimingEngine = calculateTransitionTiming(DefaultCurrent, DefaultNext, DefaultOptions)

\* another current track: its length, beats, tempo and outro point
PlanSetCurrent ==
    \E d \in Durations, b \in CurrentBeatLists :
        \E o \in OutroTrimPoints(Secs(d)) :
            /\ \A i \in 1..Len(b) : b[i].time <= Secs(d)
            /\ Replan(Secs(d),
                      [duration |-> Secs(d), beats |-> b,
                       tempo |-> IF planCurrent = Null THEN 0 ELSE planCurrent.tempo,
                       outroTrimPoint |-> o],
                      planNext, planOptions)

\* the analysis finds another tempo for the current track
PlanSetCurrentTempo ==
    \E t \in CurrentTempos :
        /\ planCurrent # Null
        /\ Replan(planHowlDuration, [planCurrent EXCEPT !.tempo = t], planNext, planOptions)

\* no analysis of the current track (play() not called yet)
PlanClearCurrent ==
    \E d \in Durations \cup {0} : Replan(Secs(d), Null, planNext, planOptions)

PlanSetNext ==
    \E b \in NextBeatLists, t \in NextTempos :
        Replan(planHowlDuration, planCurrent,
               [duration |-> Secs(200), beats |-> b, tempo |-> t, outroTrimPoint |-> Secs(200)],
               planOptions)

PlanClearNext == Replan(planHowlDuration, planCurrent, Null, planOptions)

PlanSetOptions ==
    \E c \in CrossfadeDurations, m \in BOOLEAN, o \in BOOLEAN :
        Replan(planHowlDuration, planCurrent, planNext,
               [crossfadeDuration |-> Secs(c), transitionOverlap |-> 95, tempoMatch |-> m,
                outroTrimEnabled |-> o])

PlanNext ==
    \/ PlanSetCurrent
    \/ PlanSetCurrentTempo
    \/ PlanClearCurrent
    \/ PlanSetNext
    \/ PlanClearNext
    \/ PlanSetOptions

-----------------------------------------------------------------------------
(* AutoMixEngineHowler.trackCache: loadTrack and _addToCache               *)
(* A Map is the sequence of its entries in insertion order.  A cache entry *)
(* is the trackData [trackId, howl]; the analysis of a track is identified *)
(* with its trackId.                                                       *)

maxCacheSize == 30

CacheIds(cache) == [i \in 1..Len(cache) |-> cache[i].trackId]

\* Map.has
CacheHas(cache, trackId) == \E i \in 1..Len(cache) : cache[i].trackId = trackId

\* Map.get
CacheGet(cache, trackId) == cache[CHOOSE i \in 1..Len(cache) : cache[i].trackId = trackId]

\* Map.set: a new key goes last, an existing key keeps its place
MapSet(cache, data) ==
    IF CacheHas(cache, data.trackId)
    THEN [i \in 1..Len(cache) |-> IF cache[i].trackId = data.trackId THEN data ELSE cache[i]]
    ELSE Append(cache, data)

\* the mutant evicts the newest entry instead of the oldest
AddToCache_EvictNewest(cache, data) ==
    MapSet(IF Len(cache) >= maxCacheSize THEN SubSeq(cache, 1, Len(cache) - 1) ELSE cache, data)

\* _addToCache: delete the first key when full, then set
AddToCache(cache, data) ==
    MapSet(IF Len(cache) >= maxCacheSize THEN Tail(cache) ELSE cache, data)

\* Track ids are opaque to the cache, so a track that never entered the cache
\* is named when its load completes: tracks are numbered in the order they
\* first enter the cache.  A load in flight is [trackId, group]: trackId is 0
\* until the track is named, and loads of one unnamed track share a group.
MaxInFlight == 2

\* tracks beyond maxCacheSize that may be loaded
ExtraTracks == 6

MaxReloads == 1

\* the first WarmUp tracks are loaded one after the other; from then on
\* loads overlap freely
WarmUp == 27

Remove(seq, i) == [j \in 1..(Len(seq) - 1) |-> IF j < i THEN seq[j] ELSE seq[j + 1]]

Without(seq, x) == SelectSeq(seq, LAMBDA y : y # x)

GroupsInFlight(flight) == {flight[i].group : i \in {j \in 1..Len(flight) : flight[j].trackId = 0}}

CacheIdle ==
    /\ trackCache = <<>>
    /\ howlsCreated = 0
    /\ loadsInFlight = <<>>
    /\ tracksNamed = 0
    /\ reloads = 0
    /\ insertOrder = <<>>
    /\ cacheAdds = 0

\* loadTrack of a cached track (any one: the call changes nothing): the
\* cached trackData is returned
CacheLoadHit ==
    /\ trackCache # <<>>
    /\ CacheHas(trackCache, Head(trackCache).trackId)
    /\ UNCHANGED <<keyVars, planVars, cacheVars, analysisVars, engineVars>>

\* loadTrack of a track that was cached once and is not now: a miss
CacheLoadEvicted ==
    \E k \in 1..tracksNamed :
        /\ ~CacheHas(trackCache, k)
        /\ Len(loadsInFlight) < MaxInFlight
        /\ reloads < MaxReloads
        /\ reloads' = reloads + 1
        /\ loadsInFlight' = Append(loadsInFlight, [trackId |-> k, group |-> 0])
        /\ UNCHANGED <<trackCache, howlsCreated, tracksNamed, insertOrder, cacheAdds>>
        /\ UNCHANGED <<keyVars, planVars, analysisVars, engineVars>>

\* loadTrack of a track that never entered the cache: a miss; the track is
\* one already being loaded (its group) or another one (the least free group)
CacheLoadNew ==
    \E g \in 1..MaxInFlight :
        /\ Len(loadsInFlight) < MaxInFlight
        /\ tracksNamed < WarmUp => loadsInFlight = <<>>
        /\ \/ /\ g \in GroupsInFlight(loadsInFlight)
              /\ reloads < MaxReloads
              /\ reloads' = reloads + 1
           \/ /\ g \notin GroupsInFlight(loadsInFlight)
              /\ \A h \in 1..(g - 1) : h \in GroupsInFlight(loadsInFlight)
              /\ tracksNamed + Cardinality(GroupsInFlight(loadsInFlight)) <
                     maxCacheSize + ExtraTracks
              /\ reloads' = reloads
        /\ loadsInFlight' = Append(loadsInFlight, [trackId |-> 0, group |-> g])
        /\ UNCHANGED <<trackCache, howlsCreated, tracksNamed, insertOrder, cacheAdds>>
        /\ UNCHANGED <<keyVars, planVars, analysisVars, engineVars>>

\* fetch, decode and analysis are done: new Howl, _addToCache
CacheLoadFinish ==
    \E i \in 1..Len(loadsInFlight) :
        LET item == loadsInFlight[i]
            id == IF item.trackId = 0 THEN tracksNamed + 1 ELSE item.trackId
            data == [trackId |-> id, howl |-> howlsCreated + 1]
            rest == Remove(loadsInFlight, i)
            \* the set creates an entry unless the key is there and stays
            created == \/ ~CacheHas(trackCache, id)
                       \/ (Len(trackCache) >= maxCacheSize /\ Head(trackCache).trackId = id)
        IN  /\ trackCache' = AddToCache(trackCache, data)
            /\ howlsCreated' = howlsCreated + 1
            /\ tracksNamed' = IF item.trackId = 0 THEN id ELSE tracksNamed
            /\ loadsInFlight' =
                 [j \in 1..Len(rest) |->
                    IF item.trackId = 0 /\ rest[j].trackId = 0 /\ rest[j].group = item.group
                    THEN [trackId |-> id, group |-> 0]
                    ELSE rest[j]]
            /\ insertOrder' = IF created THEN Append(Without(insertOrder, id), id)
                              ELSE insertOrder
            /\ cacheAdds' = cacheAdds + 1
            /\ UNCHANGED reloads
            /\ UNCHANGED <<keyVars, planVars, analysisVars, engineVars>>

\* fetch or decodeAudioData rejects: loadTrack throws and caches nothing
CacheLoadFail ==
    \E i \in 1..Len(loadsInFlight) :
        /\ loadsInFlight' = Remove(loadsInFlight, i)
        /\ UNCHANGED <<trackCache, howlsCreated, tracksNamed, reloads, insertOrder, cacheAdds>>
        /\ UNCHANGED <<keyVars, planVars, analysisVars, engineVars>>

CacheNext ==
    \/ CacheLoadHit
    \/ CacheLoadEvicted
    \/ CacheLoadNew
    \/ CacheLoadFinish
    \/ CacheLoadFail

-----------------------------------------------------------------------------
(* AutoMixEngine.analysisCache: getTrackAnalysis                           *)

\* AudioAnalyzer.maxCacheSize
analyzerMaxCacheSize == 50

\* tracks beyond analyzerMaxCacheSize that may be analysed
ExtraAnalyses == 3

AnalysisIdle ==
    /\ analysisCache = <<>>
    /\ analysesInFlight = <<>>
    /\ analysesNamed = 0

\* analysisCache.has(trackId): the cached analysis is returned
AnalysisHit ==
    /\ analysisCache # <<>>
    /\ Includes(analysisCache, Head(analysisCache))
    /\ UNCHANGED <<keyVars, planVars, cacheVars, analysisVars, engineVars>>

\* a miss: preAnalyzeTrack(url) is awaited
AnalysisStart ==
    \E g \in 1..MaxInFlight :
        /\ Len(analysesInFlight) < MaxInFlight
        /\ \/ g \in GroupsInFlight(analysesInFlight)
           \/ /\ g \notin GroupsInFlight(analysesInFlight)
              /\ \A h \in 1..(g - 1) : h \in GroupsInFlight(analysesInFlight)
              /\ analysesNamed + Cardinality(GroupsInFlight(analysesInFlight)) <
                     analyzerMaxCacheSize + ExtraAnalyses
        /\ analysesInFlight' = Append(analysesInFlight, [trackId |-> 0, group |-> g])
        /\ UNCHANGED <<analysisCache, analysesNamed>>
        /\ UNCHANGED <<keyVars, planVars, cacheVars, sideVars, engineVars>>

\* preAnalyzeTrack returned an analysis: analysisCache.set(trackId, analysis)
AnalysisFinish ==
    \E i \in 1..Len(analysesInFlight) :
        LET item == analysesInFlight[i]
            id == IF item.trackId = 0 THEN analysesNamed + 1 ELSE item.trackId
            rest == Remove(analysesInFlight, i)
        IN  /\ analysisCache' = IF Includes(analysisCache, id) THEN analysisCache
                                ELSE Append(analysisCache, id)
            /\ analysesNamed' = IF item.trackId = 0 THEN id ELSE analysesNamed
            /\ analysesInFlight' =
                 [j \in 1..Len(rest) |->
                    IF item.trackId = 0 /\ rest[j].trackId = 0 /\ rest[j].group = item.group
                    THEN [trackId |-> id, group |-> 0]
                    ELSE rest[j]]
            /\ UNCHANGED <<keyVars, planVars, cacheVars, sideVars, engineVars>>

\* preAnalyzeTrack returned null (fetch failed, decode failed or timed out)
AnalysisFail ==
    \E i \in 1..Len(analysesInFlight) :
        /\ analysesInFlight' = Remove(analysesInFlight, i)
        /\ UNCHANGED <<analysisCache, analysesNamed>>
        /\ UNCHANGED <<keyVars, planVars, cacheVars, sideVars, engineVars>>

AnalysisNext ==
    \/ AnalysisHit
    \/ AnalysisStart
    \/ AnalysisFinish
    \/ AnalysisFail

-----------------------------------------------------------------------------
(* AutoMixEngineHowler                                                     *)
(* The functions of the engine and of the controller run to their next     *)
(* await of a timer, a network answer or an audio event without            *)
(* interleaving; each such segment is an operator from the state w (a      *)
(* record of the variables) to the state after it, so that a function that *)
(* calls another one synchronously is their composition.                   *)
(* A Howl is [trackId, status, loaded, volume, fade, rate]: status is      *)
(* "playing", "paused" or "stopped" (a Howl that never played is stopped), *)
(* loaded is false for an object not yet constructed or unloaded, volume   *)
(* is the last argument of volume() in tenths, fade the last fade() ("out" *)
(* is fade(1, 0, ms), "in" is fade(0, 1, ms)), which stop(), pause() and   *)
(* unload() end, rate the last rate().  The playback position is not kept: *)
(* seek() reads it as any position.  The load() that prepareNext calls on  *)
(* an unloaded Howl is recorded at the call; the 'load' event that         *)
(* prepareNext awaits is a later step, which may never come.  The global   *)
(* Howler.volume(1) of play() is not kept: nothing else sets it.  Tracks   *)
(* are numbered in the order of their first load.                          *)

NumTracks == 2

MaxHowls == 2

MaxCalls == 2

MaxTicks == 1

Tracks == 1..NumTracks

HowlIds == 1..MaxHowls

Calls == 1..MaxCalls

\* the _checkTransition invocations that may overlap
Ticks == DOMAIN ticks

\* the analysis loadTrack computes for a track: the tracks of the queue are
\* 200 s long at 120 BPM
TrackAnalysis(k) ==
    [duration |-> Secs(200), beats |-> <<>>, tempo |-> 120,
     outroTrimPoint |-> Secs(200)]

AnalysisOf(id) == IF id = 0 THEN Null ELSE TrackAnalysis(id)

\* duration - currentTime of the playing track, seconds
Remainings == {30, 20, 12, 10, 5}

\* setVolume arguments, tenths
Volumes == {5}

NoHowl ==
    [trackId |-> 0, status |-> "stopped", loaded |-> FALSE, volume |-> 10, fade |-> "none",
     rate |-> <<1, 1>>]

\* new Howl({src: [url], html5: true, preload: true})
NewHowl(k) ==
    [trackId |-> k, status |-> "stopped", loaded |-> TRUE, volume |-> 10, fade |-> "none",
     rate |-> <<1, 1>>]

\* An executeTransition call is [pc, owner, timing, ready, from, to]: pc is where the
\* call stands ("delay", "resume" and "fade" are its awaits, "done" its
\* return, "noop" the return of the guard, "threw" a TypeError), owner the
\* tick that awaits it (0 for another caller), ready whether the engine had
\* a current and a prepared next track when the call passed the guard, from
\* and to the current and the prepared Howl at that moment, kept while a
\* call of the controller runs.
NoTiming == [currentOut |-> 0, nextIn |-> 0, duration |-> 0, tempoRatio |-> <<1, 1>>]

IdleCall ==
    [pc |-> "idle", owner |-> 0, timing |-> NoTiming, ready |-> FALSE, from |-> 0, to |-> 0]

\* the state a step starts from; the outcome of a settled executeTransition
\* call is seen by its caller in the step that settles it and not kept
W ==
    [engine |-> engine, howls |-> howls,
     calls |-> [c \in DOMAIN calls |->
                   IF calls[c].pc \in {"done", "noop", "threw"} THEN IdleCall ELSE calls[c]],
     playsPending |-> playsPending,
     playTracks |-> playTracks, ctrl |-> ctrl, ticks |-> ticks, player |-> player,
     cache |-> trackCache, created |-> howlsCreated]

\* nextTrackData = null
NoData == [trackId |-> 0, howl |-> 0]

\* player.fallbacks counts the playNext() calls made since the engine's
\* current track last changed or a next track was last prepared
Become(w) ==
    /\ engine' = w.engine
    /\ howls' = w.howls
    /\ calls' = w.calls
    /\ playsPending' = w.playsPending
    /\ playTracks' = w.playTracks
    /\ ctrl' = w.ctrl
    /\ ticks' = w.ticks
    /\ player' = IF w.engine.currentHowl # engine.currentHowl \/ w.ctrl.nextTrackData # NoData
                 THEN [w.player EXCEPT !.fallbacks = 0]
                 ELSE w.player
    /\ trackCache' = w.cache
    /\ howlsCreated' = w.created
    /\ UNCHANGED <<loadsInFlight, tracksNamed, reloads, insertOrder, cacheAdds>>
    /\ UNCHANGED <<keyVars, planVars, analysisVars>>

\* Howl.play, stop, pause, unload, load, volume, fade, rate
HowlPlay(w, h) ==
    IF w.howls[h].loaded THEN [w EXCEPT !.howls[h].status = "playing"] ELSE w

HowlStop(w, h) ==
    IF w.howls[h].loaded
    THEN [w EXCEPT !.howls[h].status = "stopped", !.howls[h].fade = "none"]
    ELSE w

HowlPause(w, h) ==
    IF w.howls[h].status = "playing"
    THEN [w EXCEPT !.howls[h].status = "paused", !.howls[h].fade = "none"]
    ELSE w

HowlUnload(w, h) ==
    [w EXCEPT !.howls[h].loaded = FALSE, !.howls[h].fade = "none",
              !.howls[h].status = "stopped"]

HowlLoad(w, h) == [w EXCEPT !.howls[h].loaded = TRUE]

HowlVolume(w, h, v) == [w EXCEPT !.howls[h].volume = v]

HowlFade(w, h, dir) == [w EXCEPT !.howls[h].fade = dir]

HowlRate(w, h, r) == [w EXCEPT !.howls[h].rate = r]

\* this.currentHowl ? this.currentHowl.duration() : 0
HowlDuration(w) ==
    IF w.engine.currentHowl = 0 THEN 0
    ELSE TrackAnalysis(w.howls[w.engine.currentHowl].trackId).duration

\* _calculateTransitionTiming on the engine's fields
EngineTiming(w) ==
    CalculateTransitionTiming(HowlDuration(w), AnalysisOf(w.engine.currentAnalysis),
                              AnalysisOf(w.engine.nextAnalysis), DefaultOptions)

\* play(trackData) after its await: Howler.volume(1); this.currentHowl.play()
PlayResumed(w) ==
    IF w.engine.currentHowl = 0 THEN w ELSE HowlPlay(w, w.engine.currentHowl)

\* play(trackData, startTime)
EnginePlay(w, data) ==
    LET w1 == IF w.engine.currentHowl # 0
              THEN HowlUnload(HowlStop(w, w.engine.currentHowl), w.engine.currentHowl)
              ELSE w
        w2 == [w1 EXCEPT !.engine.currentHowl = data.howl,
                         !.engine.currentAnalysis = data.trackId]
    IN  IF w2.engine.audioContext = "suspended"
        THEN [w2 EXCEPT !.playsPending = @ + 1]
        ELSE PlayResumed(w2)

\* prepareNext(trackData) up to its await of the 'load' event
PrepareNext(w, data) ==
    LET w1 == [w EXCEPT !.engine.nextHowl = data.howl, !.engine.nextAnalysis = data.trackId]
    IN  w1

\* does prepareNext(trackData) wait for the 'load' event?
PrepareWaits(w, data) == ~w.howls[data.howl].loaded

\* a call moves on; its timing is read for the last time before the
\* crossfade starts
SetCall(w, c, pc) ==
    [w EXCEPT !.calls[c].pc = pc, !.calls[c].timing = NoTiming,
              !.calls[c].from = IF pc \in {"done", "threw"} THEN 0 ELSE @,
              !.calls[c].to = IF pc \in {"done", "threw"} THEN 0 ELSE @]

\* the mutant leaves the outgoing track loaded
ExecEnd_NoUnload(w, c) ==
    IF w.engine.currentHowl = 0 THEN SetCall(w, c, "threw")
    ELSE
    LET w1 == HowlStop(w, w.engine.currentHowl)
        w2 == [w1 EXCEPT !.engine.currentHowl = w.engine.nextHowl,
                         !.engine.currentAnalysis = w.engine.nextAnalysis,
                         !.engine.nextHowl = 0,
                         !.engine.nextAnalysis = 0]
    IN  IF w2.engine.currentHowl = 0 THEN SetCall(w2, c, "threw")
        ELSE LET w3 == HowlFade(HowlVolume(w2, w2.engine.currentHowl, 10),
                                w2.engine.currentHowl, "in")
             IN  SetCall([w3 EXCEPT !.engine.isTransitioning = FALSE], c, "done")

\* executeTransition after the crossfade: stop and unload the old track,
\* swap, volume(1), fade(0, 1, 100), isTransitioning = false
ExecEnd(w, c) ==
    IF w.engine.currentHowl = 0 THEN SetCall(w, c, "threw")
    ELSE
    LET w1 == HowlUnload(HowlStop(w, w.engine.currentHowl), w.engine.currentHowl)
        w2 == [w1 EXCEPT !.engine.currentHowl = w.engine.nextHowl,
                         !.engine.currentAnalysis = w.engine.nextAnalysis,
                         !.engine.nextHowl = 0,
                         !.engine.nextAnalysis = 0]
    IN  IF w2.engine.currentHowl = 0 THEN SetCall(w2, c, "threw")
        ELSE LET w3 == HowlFade(HowlVolume(w2, w2.engine.currentHowl, 10),
                                w2.engine.currentHowl, "in")
             IN  SetCall([w3 EXCEPT !.engine.isTransitioning = FALSE], c, "done")

\* executeTransition from "Start next track" to the await in
\* _executeHowlerCrossfade
ExecBegin(w, c) ==
    IF w.engine.nextHowl = 0 THEN SetCall(w, c, "threw")
    ELSE
    LET n == w.engine.nextHowl
        w1 == HowlPlay(HowlVolume(w, n, 0), n)
    IN  IF w1.engine.currentHowl = 0 THEN SetCall(w1, c, "threw")
        ELSE SetCall(HowlFade(HowlFade(w1, w1.engine.currentHowl, "out"), n, "in"), c, "fade")

\* executeTransition after its first delay: tempo matching, then the await
\* of audioContext.resume() when the context is suspended
ExecAfterDelay(w, c) ==
    LET r == w.calls[c].timing.tempoRatio
        w1 == IF r[1] # r[2] /\ w.engine.nextHowl # 0
              THEN HowlRate(w, w.engine.nextHowl, r)
              ELSE w
    IN  IF w1.engine.audioContext = "suspended" THEN SetCall(w1, c, "resume")
        ELSE ExecBegin(w1, c)

\* executeTransition(timing) up to its first await; position is what
\* currentHowl.seek() returns
ExecStart(w, c, owner, timing, position) ==
    IF w.engine.isTransitioning
    THEN [w EXCEPT !.calls[c] = [IdleCall EXCEPT !.pc = "noop", !.owner = owner]]
    ELSE
    LET w1 == [w EXCEPT !.engine.isTransitioning = TRUE,
                        !.calls[c] = [pc |-> "delay", owner |-> owner, timing |-> timing,
                                      ready |-> w.engine.currentHowl # 0
                                                /\ w.engine.nextHowl # 0,
                                      from |-> IF owner = 0 THEN 0 ELSE w.engine.currentHowl,
                                      to |-> IF owner = 0 THEN 0 ELSE w.engine.nextHowl]]
    IN  IF w1.engine.currentHowl = 0 THEN SetCall(w1, c, "threw")
        ELSE IF timing.currentOut - position > 0 THEN w1
        ELSE ExecAfterDelay(w1, c)

\* stop()
EngineStop(w) ==
    LET w1 == IF w.engine.currentHowl # 0 THEN HowlStop(w, w.engine.currentHowl) ELSE w
        w2 == IF w1.engine.nextHowl # 0 THEN HowlStop(w1, w1.engine.nextHowl) ELSE w1
    IN  [w2 EXCEPT !.engine.isTransitioning = FALSE]

\* pause()
EnginePause(w) ==
    IF w.engine.currentHowl # 0 THEN HowlPause(w, w.engine.currentHowl) ELSE w

\* resume()
EngineResume(w) ==
    IF w.engine.currentHowl # 0 THEN HowlPlay(w, w.engine.currentHowl) ELSE w

\* setVolume(volume)
EngineSetVolume(w, v) ==
    IF w.engine.audioContext # "none" THEN [w EXCEPT !.engine.masterGain = v]
    ELSE IF w.engine.currentHowl # 0 THEN HowlVolume(w, w.engine.currentHowl, v)
    ELSE w

-----------------------------------------------------------------------------
(* AutoMixController                                                       *)
(* The player is not part of the module: getNextTrack() answers any track  *)
(* or null, getStreamUrl() resolves or rejects, and the calls of           *)
(* playNext() are counted.  A tick is one invocation of _checkTransition:  *)
(* [pc, remaining, isTransitioning, track], the last three its locals.     *)

MaxTimers == 2

MaxPlays == 1

MaxPlayNext == 2

MaxLoads == 1

IdleTick == [pc |-> "idle", remaining |-> 0, isTransitioning |-> FALSE, track |-> 0]

Suspended == {"delay", "resume", "fade"}

Finished == {"idle", "done", "noop", "threw"}

\* what currentHowl.seek() may return
Positions == {Secs(200) - Secs(r) : r \in {12, 5}}

\* this.player.playNext()
PlayNext(w) == [w EXCEPT !.player.playNextCalls = @ + 1, !.player.fallbacks = @ + 1]

\* _checkTransition returns
TickReturn(w, t) == [w EXCEPT !.ticks[t] = IdleTick]

\* _executeTransition after its await of engine.executeTransition
AfterExec(w, t, c) ==
    IF w.calls[c].pc = "threw" \/ w.ctrl.nextTrackData = NoData
    THEN TickReturn(PlayNext(w), t)
    ELSE TickReturn([w EXCEPT !.player.currentTrack = "undefined",
                              !.ctrl.nextTrackData = NoData], t)

\* a step of an executeTransition call, then the caller that awaited it
Continue(w, c) ==
    IF w.calls[c].owner # 0 /\ w.calls[c].pc \in Finished
    THEN AfterExec(w, w.calls[c].owner, c)
    ELSE w

\* the mutant returns without the fallback when nothing is prepared
CtrlExecuteTransition_NoFallback(w, t, c, position) ==
    IF w.ctrl.nextTrackData = NoData THEN TickReturn(w, t)
    ELSE LET w1 == ExecStart(w, c, t, EngineTiming(w), position)
         IN  IF w1.calls[c].pc \in Suspended THEN [w1 EXCEPT !.ticks[t].pc = "exec"]
             ELSE AfterExec(w1, t, c)

\* _executeTransition up to its await
CtrlExecuteTransition(w, t, c, position) ==
    IF w.ctrl.nextTrackData = NoData THEN TickReturn(PlayNext(w), t)
    ELSE LET w1 == ExecStart(w, c, t, EngineTiming(w), position)
         IN  IF w1.calls[c].pc \in Suspended THEN [w1 EXCEPT !.ticks[t].pc = "exec"]
             ELSE AfterExec(w1, t, c)

\* _checkTransition from "Execute transition when it's time"
CheckExecute(w, t, c, position) ==
    IF Secs(w.ticks[t].remaining) <= DefaultOptions.crossfadeDuration
       /\ ~w.ticks[t].isTransitioning
    THEN CtrlExecuteTransition(w, t, c, position)
    ELSE TickReturn(w, t)

\* _prepareNextTrack from the answer of loadTrack: prepareNext, which waits
\* for the 'load' event of an unloaded Howl
CtrlPrepare(w, t, data, c, position) ==
    LET w1 == PrepareNext([w EXCEPT !.ctrl.nextTrackData = data], data)
    IN  IF PrepareWaits(w, data) THEN [HowlLoad(w1, data.howl) EXCEPT !.ticks[t].pc = "prep"]
        ELSE CheckExecute(w1, t, c, position)

\* _checkTransition with a preparation window that includes its two ends
CheckTransition_ClosedWindow(w, t, remaining, nextTrack, c) ==
    IF ~w.ctrl.isEnabled \/ w.engine.currentHowl = 0 \/ w.engine.currentAnalysis = 0 THEN w
    ELSE
    LET w1 == [w EXCEPT !.ticks[t] = [pc |-> "idle", remaining |-> remaining,
                                      isTransitioning |-> w.engine.isTransitioning,
                                      track |-> 0]]
        position == HowlDuration(w) - Secs(remaining)
    IN  IF remaining <= 30 /\ remaining >= 10 /\ w.ctrl.nextTrackData = NoData
        THEN IF nextTrack = 0 THEN CheckExecute(w1, t, c, position)
             ELSE [w1 EXCEPT !.ticks[t].pc = "url", !.ticks[t].track = nextTrack]
        ELSE CheckExecute(w1, t, c, position)

\* _checkTransition up to its first await
CheckTransition(w, t, remaining, nextTrack, c) ==
    IF ~w.ctrl.isEnabled \/ w.engine.currentHowl = 0 \/ w.engine.currentAnalysis = 0 THEN w
    ELSE
    LET w1 == [w EXCEPT !.ticks[t] = [pc |-> "idle", remaining |-> remaining,
                                      isTransitioning |-> w.engine.isTransitioning,
                                      track |-> 0]]
        position == HowlDuration(w) - Secs(remaining)
    IN  IF remaining < 30 /\ remaining > 10 /\ w.ctrl.nextTrackData = NoData
        THEN IF nextTrack = 0 THEN CheckExecute(w1, t, c, position)
             ELSE [w1 EXCEPT !.ticks[t].pc = "url", !.ticks[t].track = nextTrack]
        ELSE CheckExecute(w1, t, c, position)

\* loadTrack from "Create Howl": the Howl, the trackData, _addToCache
LoadTrackDone(w, k) ==
    LET h == w.created + 1
    IN  [w EXCEPT !.created = h, !.howls[h] = NewHowl(k),
                  !.cache = AddToCache(w.cache, [trackId |-> k, howl |-> h])]

-----------------------------------------------------------------------------
(* Actions of the engine and the controller                                *)

Bounded(w) ==
    /\ w.playsPending <= MaxPlays
    /\ w.player.playNextCalls <= MaxPlayNext

Do(w) == Bounded(w) /\ Become(w)

FreeCall(c) ==
    /\ calls[c].pc \in Finished
    /\ \A d \in Calls : calls[d].pc \in Finished => c <= d

EngineStart(overlap) ==
    /\ engine \in [currentHowl : {0}, nextHowl : {0}, currentAnalysis : {0},
                   nextAnalysis : {0}, isTransitioning : {FALSE},
                   audioContext : {"none", "suspended", "running"}, masterGain : {10}]
    /\ howls = [h \in HowlIds |-> NoHowl]
    /\ calls = [c \in Calls |-> IdleCall]
    /\ playsPending = 0
    /\ playTracks = {}
    /\ ctrl = [isEnabled |-> FALSE, lookaheadId |-> FALSE, timers |-> 0,
               nextTrackData |-> NoData]
    /\ ticks = [t \in 1..overlap |-> IdleTick]
    /\ player = [playNextCalls |-> 0, fallbacks |-> 0, currentTrack |-> "track"]

EngineIdle == EngineStart(MaxTicks)

\* controller.playTrack(track, url): the track is cached, engine.play
PlayTrackCached ==
    \E k \in Tracks :
        /\ CacheHas(trackCache, k)
        /\ Do(EnginePlay(W, CacheGet(trackCache, k)))

\* controller.playTrack(track, url): loadTrack awaits fetch
PlayTrackStart ==
    \E k \in Tracks :
        /\ ~CacheHas(trackCache, k)
        /\ k <= Len(trackCache) + 1
        /\ Cardinality(playTracks) < MaxLoads
        /\ Do([W EXCEPT !.playTracks = @ \cup {k}])

\* loadTrack answered: engine.play(trackData)
PlayTrackLoaded ==
    \E k \in playTracks :
        /\ engine.audioContext # "none"
        /\ howlsCreated < MaxHowls
        /\ LET w1 == LoadTrackDone([W EXCEPT !.playTracks = @ \ {k}], k)
           IN  Do(EnginePlay(w1, CacheGet(w1.cache, k)))

\* fetch or decodeAudioData rejected, or there is no audioContext to decode with
PlayTrackFailed ==
    \E k \in playTracks : Do([W EXCEPT !.playTracks = @ \ {k}])

\* audioContext.resume() awaited by play() resolved
PlayContinue ==
    /\ playsPending > 0
    /\ Do(PlayResumed([W EXCEPT !.playsPending = @ - 1, !.engine.audioContext = "running"]))

\* the trackData objects loadTrack has answered so far
TrackData == {[trackId |-> howls[h].trackId, howl |-> h] : h \in 1..howlsCreated}

\* engine.loadTrack(url, trackId) answers a caller with a new trackData: the
\* track was not cached when the call was made
LoadTrackCall ==
    \E k \in Tracks :
        /\ k = Len(trackCache) + 1
        /\ engine.audioContext # "none"
        /\ howlsCreated < MaxHowls
        /\ Do(LoadTrackDone(W, k))

\* engine.play(trackData)
PlayCall ==
    \E data \in TrackData :
        /\ Bounded(EnginePlay(W, data))
        /\ Become(EnginePlay(W, data))

\* engine.prepareNext(trackData)
PrepareNextCall ==
    \E data \in TrackData :
        /\ Bounded(W)
        /\ Become(IF PrepareWaits(W, data) THEN HowlLoad(PrepareNext(W, data), data.howl)
                  ELSE PrepareNext(W, data))

\* engine.executeTransition(timing) called with the plan of the engine
ExecuteTransitionCall ==
    \E c \in Calls, position \in Positions :
        /\ FreeCall(c)
        /\ Do(ExecStart(W, c, 0, EngineTiming(W), position))

\* the delay until the mix-out point elapsed
ExecDelayed ==
    \E c \in Calls :
        /\ calls[c].pc = "delay"
        /\ Do(Continue(ExecAfterDelay(W, c), c))

\* audioContext.resume() awaited by executeTransition resolved
ExecResumed ==
    \E c \in Calls :
        /\ calls[c].pc = "resume"
        /\ Do(Continue(ExecBegin([W EXCEPT !.engine.audioContext = "running"], c), c))

\* the delay of _executeHowlerCrossfade elapsed
ExecFaded ==
    \E c \in Calls :
        /\ calls[c].pc = "fade"
        /\ Do(Continue(ExecEnd(W, c), c))

\* engine.stop()
Stop ==
    /\ Bounded(EngineStop(W))
    /\ Become(EngineStop(W))

\* engine.pause()
Pause ==
    /\ Bounded(EnginePause(W))
    /\ Become(EnginePause(W))

\* engine.resume()
Resume ==
    /\ Bounded(EngineResume(W))
    /\ Become(EngineResume(W))

\* engine.setVolume(volume)
SetVolume ==
    \E v \in Volumes :
        /\ Bounded(EngineSetVolume(W, v))
        /\ Become(EngineSetVolume(W, v))

\* enable(): isEnabled = true, _startLookahead sets a new interval timer
Enable ==
    /\ ctrl.timers < MaxTimers
    /\ Do([W EXCEPT !.ctrl.isEnabled = TRUE, !.ctrl.lookaheadId = TRUE,
                    !.ctrl.timers = @ + 1])

\* disable(): isEnabled = false, _stopLookahead clears the timer lookaheadId names
Disable ==
    /\ Bounded(W)
    /\ Become([W EXCEPT !.ctrl.isEnabled = FALSE, !.ctrl.lookaheadId = FALSE,
                        !.ctrl.timers = IF ctrl.lookaheadId THEN @ - 1 ELSE @])

\* an interval timer fires: _checkTransition
TickFire ==
    \E t \in Ticks, remaining \in Remainings, nextTrack \in 0..NumTracks, c \in Calls :
        /\ ctrl.timers > 0
        /\ ticks[t].pc = "idle"
        /\ \A u \in Ticks : ticks[u].pc = "idle" => t <= u
        /\ FreeCall(c)
        /\ Do(CheckTransition(W, t, remaining, nextTrack, c))

\* getStreamUrl resolved: loadTrack answers from the cache or awaits fetch
TickUrl ==
    \E t \in Ticks, c \in Calls, position \in Positions :
        /\ ticks[t].pc = "url"
        /\ FreeCall(c)
        /\ IF CacheHas(trackCache, ticks[t].track)
           THEN Do(CtrlPrepare(W, t, CacheGet(trackCache, ticks[t].track), c, position))
           ELSE Do([W EXCEPT !.ticks[t].pc = "load"])

\* loadTrack answered _prepareNextTrack
TickLoad ==
    \E t \in Ticks, c \in Calls, position \in Positions :
        /\ ticks[t].pc = "load"
        /\ FreeCall(c)
        /\ engine.audioContext # "none"
        /\ howlsCreated < MaxHowls
        /\ LET w1 == LoadTrackDone(W, ticks[t].track)
           IN  Do(CtrlPrepare(w1, t, CacheGet(w1.cache, ticks[t].track), c, position))

\* getStreamUrl, fetch or decodeAudioData rejected, or there is no
\* audioContext to decode with: the catch of _prepareNextTrack
TickFailed ==
    \E t \in Ticks, c \in Calls, position \in Positions :
        /\ ticks[t].pc \in {"url", "load"}
        /\ FreeCall(c)
        /\ Do(CheckExecute(W, t, c, position))

\* the 'load' event prepareNext waited for
TickPrep ==
    \E t \in Ticks, c \in Calls, position \in Positions :
        /\ ticks[t].pc = "prep"
        /\ FreeCall(c)
        /\ Do(CheckExecute(W, t, c, position))

\* the engine driven through its own methods
EngineNext ==
    \/ LoadTrackCall
    \/ PlayCall
    \/ PlayContinue
    \/ PrepareNextCall
    \/ ExecuteTransitionCall
    \/ ExecDelayed
    \/ ExecResumed
    \/ ExecFaded
    \/ Stop
    \/ Pause
    \/ Resume
    \/ SetVolume

\* the controller: playTrack, stop, enable, disable and the ticks of the
\* lookahead timer, which drive the engine
Next ==
    \/ PlayTrackCached
    \/ PlayTrackStart
    \/ PlayTrackLoaded
    \/ PlayTrackFailed
    \/ PlayContinue
    \/ ExecDelayed
    \/ ExecResumed
    \/ ExecFaded
    \/ Stop
    \/ Enable
    \/ Disable
    \/ TickFire
    \/ TickUrl
    \/ TickLoad
    \/ TickFailed
    \/ TickPrep

-----------------------------------------------------------------------------
(* AudioAnalyzer: analyze, _detectBeatsAdvanced, _calculateTempo           *)
(*                                                                         *)
(* A buffer is a sequence of frames of hopSize samples (50 ms, one time    *)
(* unit); a frame is the sum of |sample| over its samples. A window of     *)
(* windowSize samples is two frames.                                       *)

TypeError == "TypeError"

MaxFrames == 7

Amplitudes == {0, 1, 2}

\* analyze stops after sampleRate * 30 samples
analysisLimit == Secs(30)

RECURSIVE SumSeq(_, _, _)
SumSeq(seq, from, to) == IF from > to THEN 0 ELSE seq[from] + SumSeq(seq, from + 1, to)

\* _fft: evenFFT and oddFFT have a quarter of n entries each, so for
\* k >= 1 result[k] is NaN; result[0] is the sum of |sample| over the window
Fft(window) == [bin0 |-> SumSeq(window, 1, Len(window)), others |-> NaN]

\* _calculateEnergy: the sum over the bins includes the NaN ones
CalculateEnergy(spectrum) == NaN

\* the flux loop of analyze: NaN differences are not > 0 and add nothing
SpectralFlux(spectrum, previousSpectrum) ==
    IF previousSpectrum = Null THEN 0 ELSE Max(spectrum.bin0 - previousSpectrum.bin0, 0)

\* i + windowSize < channelData.length && i < sampleRate * 30, i += hopSize
NumWindows(channelData) == Min(Max(Len(channelData) - 2, 0), analysisLimit)

WindowAt(channelData, j) == SubSeq(channelData, j, j + 1)

EnergyEnvelope(channelData) ==
    [j \in 1..NumWindows(channelData) |->
        LET spectrum == Fft(WindowAt(channelData, j))
            previousSpectrum == IF j = 1 THEN Null ELSE Fft(WindowAt(channelData, j - 1))
        IN  [time |-> j - 1,
             energy |-> CalculateEnergy(spectrum),
             flux |-> SpectralFlux(spectrum, previousSpectrum)]]

FluxValues(energyEnvelope) == [j \in 1..Len(energyEnvelope) |-> energyEnvelope[j].flux]

\* threshold[i] = localMean * 1.5, kept as the fraction <<3 * sum, 2 * count>>
CalculateAdaptiveThreshold(fluxValues) ==
    [k \in 1..Len(fluxValues) |->
        LET start == Max(0, (k - 1) - 10)
            end == Min(Len(fluxValues), (k - 1) + 10)
        IN  <<3 * SumSeq(fluxValues, start + 1, end), 2 * (end - start)>>]

Exceeds(value, fraction) == value * fraction[2] > fraction[1]

\* the loop of _detectBeatsAdvanced from index k - 1 on
RECURSIVE DetectBeatsFrom(_, _, _, _)
DetectBeatsFrom(energyEnvelope, fluxValues, threshold, k) ==
    IF k > Len(fluxValues) - 1 THEN <<>>
    ELSE LET rest == DetectBeatsFrom(energyEnvelope, fluxValues, threshold, k + 1)
         IN  IF /\ Exceeds(fluxValues[k], threshold[k])
                /\ fluxValues[k] > fluxValues[k - 1]
                /\ fluxValues[k] > fluxValues[k + 1]
             THEN <<[time |-> energyEnvelope[k].time,
                     energy |-> energyEnvelope[k].energy,
                     strength |-> fluxValues[k]]>> \o rest
             ELSE rest

\* energyEnvelope[i].time throws when the envelope is shorter than the flux list
DetectBeatsAdvanced(energyEnvelope, fluxValues) ==
    IF Len(energyEnvelope) < Len(fluxValues) - 1 THEN [threw |-> TypeError]
    ELSE [threw |-> "",
          beats |-> DetectBeatsFrom(energyEnvelope, fluxValues,
                                    CalculateAdaptiveThreshold(fluxValues), 2)]

\* Math.round(interval * 10): an interval of an odd number of frames is an
\* odd multiple of 0.05 s, up to the rounding error of the subtraction, and
\* is rounded either way
RoundTenths(interval, roundsUp) ==
    IF interval % 2 = 0 THEN interval \div 2
    ELSE IF roundsUp THEN (interval + 1) \div 2 ELSE (interval - 1) \div 2

\* the tempo of the last interval instead of the most frequent one
CalculateTempo_LastInterval(beats, roundsUp) ==
    IF Len(beats) < 2 THEN <<0, 1>>
    ELSE LET commonInterval ==
                 RoundTenths(beats[Len(beats)].time - beats[Len(beats) - 1].time,
                             roundsUp[Len(beats)])
         IN  IF commonInterval > 0 THEN <<600, commonInterval>> ELSE <<0, 1>>

\* 60 / commonInterval as the fraction <<600, tenths of a second>>; the
\* histogram is a Map, read in the order the intervals were first met
CalculateTempo(beats, roundsUp) ==
    IF Len(beats) < 2 THEN <<0, 1>>
    ELSE LET intervals == [i \in 1..(Len(beats) - 1) |-> beats[i + 1].time - beats[i].time]
             rounded == [i \in 1..Len(intervals) |-> RoundTenths(intervals[i], roundsUp[i + 1])]
             count(r) == Cardinality({i \in 1..Len(rounded) : rounded[i] = r})
             maxCount == CHOOSE c \in 1..Len(rounded) :
                             /\ \E i \in 1..Len(rounded) : count(rounded[i]) = c
                             /\ \A i \in 1..Len(rounded) : count(rounded[i]) <= c
             first == CHOOSE i \in 1..Len(rounded) :
                          /\ count(rounded[i]) = maxCount
                          /\ \A j \in 1..(i - 1) : count(rounded[j]) < maxCount
             commonInterval == rounded[first]
         IN  IF commonInterval > 0 THEN <<600, commonInterval>> ELSE <<0, 1>>

\* _detectKey: _chromagram fills pitch class 0 only
DetectKey(channelData) == "C"

\* _findTransitionPoints: every energy is NaN, no comparison with it holds
FindTransitionPoints(energyEnvelope, duration) ==
    [mixOutPoint |-> duration - Secs(10), mixInPoint |-> 0, duration |-> duration]

\* averageEnergy by a reduce without an initial value: it throws on an empty
\* envelope
Analyze_ReduceWithoutInitial(channelData, roundsUp) ==
    LET duration == Len(channelData)
        energyEnvelope == EnergyEnvelope(channelData)
        fluxValues == FluxValues(energyEnvelope)
        detected == DetectBeatsAdvanced(energyEnvelope, fluxValues)
    IN  IF detected.threw # "" THEN [threw |-> detected.threw]
        ELSE IF energyEnvelope = <<>> THEN [threw |-> TypeError]
        ELSE [threw |-> "",
              duration |-> duration,
              tempo |-> CalculateTempo(detected.beats, roundsUp),
              key |-> DetectKey(channelData),
              beats |-> detected.beats,
              energyEnvelope |-> energyEnvelope,
              transitionPoints |-> FindTransitionPoints(energyEnvelope, duration),
              averageEnergy |-> NaN,
              peakEnergy |-> "NaN"]

Analyze(channelData, roundsUp) ==
    LET duration == Len(channelData)
        energyEnvelope == EnergyEnvelope(channelData)
        fluxValues == FluxValues(energyEnvelope)
        detected == DetectBeatsAdvanced(energyEnvelope, fluxValues)
    IN  IF detected.threw # "" THEN [threw |-> detected.threw]
        ELSE [threw |-> "",
              duration |-> duration,
              tempo |-> CalculateTempo(detected.beats, roundsUp),
              key |-> DetectKey(channelData),
              beats |-> detected.beats,
              energyEnvelope |-> energyEnvelope,
              transitionPoints |-> FindTransitionPoints(energyEnvelope, duration),
              averageEnergy |-> NaN,
              peakEnergy |-> IF energyEnvelope = <<>> THEN "-Infinity" ELSE "NaN"]

\* detectBeats: minBeatInterval, in time units
minBeatInterval == 6

\* the envelope of analyzeTrackWaveform: one frame per hop of 200 ms
WaveformEnvelope(rmsValues) ==
    [k \in 1..Len(rmsValues) |-> [time |-> (k - 1) * 4, rms |-> rmsValues[k]]]

\* the loop of detectBeats from index k - 1 on
RECURSIVE DetectBeatsLoop(_, _, _)
DetectBeatsLoop(energyEnvelope, k, lastBeatTime) ==
    IF k > Len(energyEnvelope) - 2 THEN <<>>
    ELSE LET current == energyEnvelope[k]
             prev == energyEnvelope[k - 1]
             next == energyEnvelope[k + 1]
         IN  IF /\ current.rms > prev.rms /\ current.rms > next.rms
                /\ current.time - lastBeatTime >= minBeatInterval
                \* current.rms > (prev.rms + next.rms) / 2 * 1.2
                /\ 10 * current.rms > 6 * (prev.rms + next.rms)
             THEN <<current.time>> \o DetectBeatsLoop(energyEnvelope, k + 1, current.time)
             ELSE DetectBeatsLoop(energyEnvelope, k + 1, lastBeatTime)

detectBeats(energyEnvelope, framesPerSecond) == DetectBeatsLoop(energyEnvelope, 3, 0)

\* the rounding directions of the intervals of one analysis
Roundings == [1..(MaxFrames \div 2) -> BOOLEAN]

SignalIdle ==
    /\ frames = <<>>
    /\ analysis = Null
    /\ beatPositions = Null

\* another frame of signal arrives; nothing is known about the longer signal
SignalRecord ==
    \E a \in Amplitudes :
        /\ Len(frames) < MaxFrames
        /\ frames' = Append(frames, a)
        /\ analysis' = Null
        /\ beatPositions' = Null
        /\ UNCHANGED <<keyVars, planVars, cacheVars, analysisCacheVars, tempoVars, fadeVars,
                       waveVars, beatVars, engineVars>>

\* analyzer.analyze(audioBuffer)
SignalAnalyze ==
    \E roundsUp \in Roundings :
        /\ analysis' = Analyze(frames, roundsUp)
        /\ UNCHANGED <<frames, beatPositions>>
        /\ UNCHANGED <<keyVars, planVars, cacheVars, analysisCacheVars, tempoVars, fadeVars,
                       waveVars, beatVars, engineVars>>

\* detectBeats(energyEnvelope, 5)
SignalDetectBeats ==
    /\ beatPositions' = [times |-> detectBeats(WaveformEnvelope(frames), 5)]
    /\ UNCHANGED <<frames, analysis>>
    /\ UNCHANGED <<keyVars, planVars, cacheVars, analysisCacheVars, tempoVars, fadeVars,
                       waveVars, beatVars, engineVars>>

SignalNext == SignalRecord \/ SignalAnalyze \/ SignalDetectBeats

\* _calculateTempo on lists of beats
MaxTempoBeats == 9

\* inter-beat intervals, frames
BeatIntervals == {3, 10}

TempoIdle ==
    /\ tempoBeats = <<>>
    /\ tempoRoundsUp = <<>>
    /\ tempo = CalculateTempo(<<>>, <<>>)

\* one more beat is detected and the tempo is computed again
TempoBeat ==
    \E d \in BeatIntervals, up \in BOOLEAN :
        /\ Len(tempoBeats) < MaxTempoBeats
        /\ up => (tempoBeats # <<>> /\ d % 2 = 1)
        /\ tempoBeats' = Append(tempoBeats,
                                [time |-> (IF tempoBeats = <<>> THEN 0 ELSE Last(tempoBeats).time) + d,
                                 energy |-> NaN, strength |-> 1])
        /\ tempoRoundsUp' = Append(tempoRoundsUp, up)
        /\ tempo' = CalculateTempo(tempoBeats', tempoRoundsUp')
        /\ UNCHANGED <<keyVars, planVars, cacheVars, analysisCacheVars, signalVars, fadeVars,
                       waveVars, beatVars, engineVars>>

\* the analysis of another track begins
TempoReset ==
    /\ tempoBeats # <<>>
    /\ tempoBeats' = <<>>
    /\ tempoRoundsUp' = <<>>
    /\ tempo' = CalculateTempo(<<>>, <<>>)
    /\ UNCHANGED <<keyVars, planVars, cacheVars, analysisCacheVars, signalVars, fadeVars,
                       waveVars, beatVars, engineVars>>

TempoNext == TempoBeat \/ TempoReset

-----------------------------------------------------------------------------
(* _executeCrossfade and its fallback _volumeCrossfade                     *)
(*                                                                         *)
(* Gains are integers, millionths. The curve position t is a fraction      *)
(* num / den with den a divisor of 60, so that cos(t * pi / 2) and         *)
(* sin(t * pi / 2) are entries of one table of cos(j * pi / 120).          *)

Unit == 1000000

\* Math.max(0.001, ...): the minimum value of a scheduled gain
gainFloor == 1000

\* cos(j * pi / 120) for j = 0..60, rounded to millionths
CosTable ==
    <<1000000, 999657, 998630, 996917, 994522, 991445, 987688, 983255, 978148, 972370,
      965926, 958820, 951057, 942641, 933580, 923880, 913545, 902585, 891007, 878817,
      866025, 852640, 838671, 824126, 809017, 793353, 777146, 760406, 743145, 725374,
      707107, 688355, 669131, 649448, 629320, 608761, 587785, 566406, 544639, 522499,
      500000, 477159, 453990, 430511, 406737, 382683, 358368, 333807, 309017, 284015,
      258819, 233445, 207912, 182236, 156434, 130526, 104528, 78459, 52336, 26177, 0>>

\* Math.cos((t * Math.PI) / 2) for t = num / den
FadeOutCurve(num, den) == CosTable[(num * 60) \div den + 1]

\* Math.sin((t * Math.PI) / 2) for t = num / den
FadeInCurve(num, den) == CosTable[60 - (num * 60) \div den + 1]

\* const steps = 60 of _executeCrossfade
rampSteps == 60

\* Math.ceil(duration * steps) of _volumeCrossfade, duration in hundredths of
\* a second and 60 steps per second
TotalSteps(duration) == (duration * 60 + 99) \div 100

\* crossfade durations, hundredths of a second
FadeDurations == {4, 8, 19, 50, 100}

\* no gain was set yet
NoGain == -1

FadeIdle ==
    fade = [mode |-> "idle", duration |-> 0, step |-> 0, totalSteps |-> 0,
            currentGain |-> NoGain, nextGain |-> NoGain]

\* _executeCrossfade(duration): without an AudioContext _volumeCrossfade
\* starts its timer; with one the loop schedules step i = 0
FadeStart ==
    \E d \in FadeDurations :
        /\ fade.mode \in {"idle", "rampDone", "volumeDone"}
        /\ fade' = IF engine.audioContext = "none"
                   THEN [mode |-> "volume", duration |-> d, step |-> 0,
                         totalSteps |-> TotalSteps(d),
                         currentGain |-> NoGain, nextGain |-> NoGain]
                   ELSE [mode |-> "ramp", duration |-> d, step |-> 0,
                         totalSteps |-> rampSteps,
                         currentGain |-> Unit, nextGain |-> gainFloor]
        /\ UNCHANGED <<keyVars, planVars, cacheVars, analysisCacheVars, signalVars, tempoVars,
                       waveVars, beatVars, engineVars>>

\* the values the loop of _executeCrossfade schedules for step i = step + 1
RampStep ==
    /\ fade.mode = "ramp"
    /\ fade.step < rampSteps
    /\ fade' = [fade EXCEPT
                  !.step = @ + 1,
                  !.currentGain = Max(gainFloor, FadeOutCurve(fade.step + 1, rampSteps)),
                  !.nextGain = Max(gainFloor, FadeInCurve(fade.step + 1, rampSteps))]
    /\ UNCHANGED <<keyVars, planVars, cacheVars, analysisCacheVars, signalVars, tempoVars,
                       waveVars, beatVars, engineVars>>

\* the delay of _executeCrossfade ends after the last scheduled value
RampDone ==
    /\ fade.mode = "ramp"
    /\ fade.step = rampSteps
    /\ fade' = [fade EXCEPT !.mode = "rampDone"]
    /\ UNCHANGED <<keyVars, planVars, cacheVars, analysisCacheVars, signalVars, tempoVars,
                       waveVars, beatVars, engineVars>>

\* one callback of the timer of _volumeCrossfade: the last one clears the timer
VolumeStep ==
    /\ fade.mode = "volume"
    /\ fade' = [fade EXCEPT
                  !.step = @ + 1,
                  !.currentGain = FadeOutCurve(fade.step + 1, fade.totalSteps),
                  !.nextGain = FadeInCurve(fade.step + 1, fade.totalSteps),
                  !.mode = IF fade.step + 1 >= fade.totalSteps THEN "volumeDone" ELSE @]
    /\ UNCHANGED <<keyVars, planVars, cacheVars, analysisCacheVars, signalVars, tempoVars,
                       waveVars, beatVars, engineVars>>

FadeNext == FadeStart \/ RampStep \/ RampDone \/ VolumeStep

-----------------------------------------------------------------------------
(* analyzeTrackWaveform: introSkipPoint and outroTrimPoint                 *)
(*                                                                         *)
(* A track is its duration and the rms value of each 100 ms window, one    *)
(* window per hop of 200 ms (4 time units).                                *)

\* hopSize and windowSize, time units
waveHop == 4

waveWindow == 2

\* i + windowSize < maxSamples, i += hopSize, maxSamples at most 30 s
WaveFrames(duration) ==
    LET maxSamples == Min(duration, Secs(30))
    IN  IF maxSamples <= waveWindow THEN 0 ELSE (maxSamples - waveWindow - 1) \div waveHop + 1

\* rmsValues.slice(-n): slice(-0) is the whole array
SliceLast(seq, n) ==
    IF n = 0 \/ n >= Len(seq) THEN seq ELSE SubSeq(seq, Len(seq) - n + 1, Len(seq))

MaxOf(seq) == CHOOSE m \in {seq[i] : i \in 1..Len(seq)} : \A i \in 1..Len(seq) : seq[i] <= m

\* rmsValues has one value per frame; the time of frame k (from 1) is
\* (k - 1) * hopSize / sampleRate
AnalyzeTrackWaveform(duration, rmsValues) ==
    LET time(k) == (k - 1) * waveHop
        loud == {k \in 1..Len(rmsValues) : rmsValues[k] > 0}
        introSkipPoint == IF loud = {} THEN 0
                          ELSE time(CHOOSE k \in loud : \A j \in loud : k <= j)
        \* Math.min(10, duration * 0.2) seconds, at 5 frames per second
        outroWindowSeconds == Min(Secs(10), duration \div 5)
        outroWindowFrames == outroWindowSeconds \div waveHop
        recentValues == SliceLast(rmsValues, outroWindowFrames)
        maxEnergy == MaxOf(recentValues)
        \* recentValues[i] > maxEnergy * 0.3
        above == {i \in 1..Len(recentValues) : 10 * recentValues[i] > 3 * maxEnergy}
        last == CHOOSE i \in above : \A j \in above : j <= i
        index == Len(rmsValues) - Len(recentValues) + last
        outroTrimPoint ==
            IF Len(rmsValues) > outroWindowFrames /\ above # {}
            THEN (IF time(index) = 0 THEN duration ELSE time(index))
            ELSE duration
    IN  [duration |-> duration,
         introSkipPoint |-> introSkipPoint,
         outroTrimPoint |-> outroTrimPoint,
         beatPositions |-> <<>>]

\* track lengths, seconds
WaveDurations == {1, 5, 10, 40, 200}

\* rms levels of the body of a track and of its quiet tail
WaveLevels == {0, 1, 4}

\* a track that plays at one level up to a frame and at another after it
WaveProfile(count, body, tail, quietFrom) ==
    [k \in 1..count |-> IF k < quietFrom THEN body ELSE tail]

WaveIdle == wave = [duration |-> 0, body |-> 0, tail |-> 0, quietFrom |-> 1,
                    result |-> AnalyzeTrackWaveform(0, <<>>)]

\* the frames at which a track may change its level: its first frame, none,
\* and some frames before its last one
QuietPoints(count) == {1, count + 1} \cup {Max(count - j, 1) : j \in {0, 5, 38, 60}}

\* analyzeTrackWaveform(audioBuffer)
WaveAnalyze ==
    \E d \in WaveDurations, body \in WaveLevels, tail \in WaveLevels :
        \E quietFrom \in QuietPoints(WaveFrames(Secs(d))) :
            /\ wave' = [duration |-> Secs(d), body |-> body, tail |-> tail,
                        quietFrom |-> quietFrom,
                        result |-> AnalyzeTrackWaveform(
                                       Secs(d),
                                       WaveProfile(WaveFrames(Secs(d)), body, tail, quietFrom))]
            /\ UNCHANGED <<keyVars, planVars, cacheVars, analysisCacheVars, signalVars,
                           tempoVars, fadeVars, beatVars, engineVars>>

WaveNext == WaveAnalyze

-----------------------------------------------------------------------------
(* Specifications of the parts                                             *)

\* a new query keeps one argument of the last one
KeysQueryFirst == \E a \in KeyNames : QueryKeys(a, key2)

KeysQuerySecond == \E b \in KeyNames : QueryKeys(key1, b)

KeysNext == KeysQueryFirst \/ KeysQuerySecond
-----------------------------------------------------------------------------
(* _calculateAdaptiveThreshold and _detectBeatsAdvanced on flux lists of   *)
(* more than ten values, with a few onsets among silent frames             *)

MaxFlux == 12

MaxPeaks == 2

FluxLevels == {0, 1, 9}

\* the envelope analyze builds around the flux values: one entry per hop
FluxEnvelope(flux) == [j \in 1..Len(flux) |-> [time |-> j - 1, energy |-> NaN, flux |-> flux[j]]]

Peaks(flux) == Cardinality({j \in 1..Len(flux) : flux[j] # 0})

BeatIdle ==
    /\ beatFlux = <<>>
    /\ beatThreshold = CalculateAdaptiveThreshold(<<>>)
    /\ beatsFound = DetectBeatsAdvanced(<<>>, <<>>)

\* one more hop of signal, and the beats of the longer envelope
BeatSample ==
    \E v \in FluxLevels :
        /\ Len(beatFlux) < MaxFlux
        /\ v # 0 => Peaks(beatFlux) < MaxPeaks
        /\ beatFlux' = Append(beatFlux, v)
        /\ beatThreshold' = CalculateAdaptiveThreshold(beatFlux')
        /\ beatsFound' = DetectBeatsAdvanced(FluxEnvelope(beatFlux'), beatFlux')
        /\ UNCHANGED <<keyVars, planVars, cacheVars, analysisCacheVars, signalVars, tempoVars,
                       fadeVars, waveVars, engineVars>>

BeatNext == BeatSample

-----------------------------------------------------------------------------
(* The lookahead timer with overlapping ticks: the interval fires every    *)
(* second whether or not the _checkTransition of the tick before has       *)
(* returned. One track plays and the controller is enabled once.           *)

MaxOverlap == 2

LookaheadIdle ==
    /\ KeysIdle /\ PlanIdle /\ CacheIdle /\ AnalysisIdle /\ EngineStart(MaxOverlap)
    /\ SignalIdle /\ TempoIdle /\ FadeIdle /\ WaveIdle /\ BeatIdle

LookaheadNext ==
    \/ PlayTrackStart
    \/ PlayTrackLoaded
    \/ PlayContinue
    \/ Enable
    \/ TickFire
    \/ TickUrl
    \/ TickLoad
    \/ TickFailed
    \/ TickPrep
    \/ ExecDelayed
    \/ ExecResumed
    \/ ExecFaded


Idle ==
    /\ KeysIdle /\ PlanIdle /\ CacheIdle /\ AnalysisIdle /\ EngineIdle
    /\ SignalIdle /\ TempoIdle /\ FadeIdle /\ WaveIdle /\ BeatIdle

SpecKeys == Idle /\ [][KeysNext]_vars

SpecPlan == Idle /\ [][PlanNext]_vars

SpecCache == Idle /\ [][CacheNext]_vars

SpecAnalysis == Idle /\ [][AnalysisNext]_vars

SpecSignal == Idle /\ [][SignalNext]_vars

SpecTempo == Idle /\ [][TempoNext]_vars

SpecFade == Idle /\ [][FadeNext]_vars

SpecWave == Idle /\ [][WaveNext]_vars

SpecBeat == Idle /\ [][BeatNext]_vars

SpecLookahead == LookaheadIdle /\ [][LookaheadNext]_vars

SpecEngine == Idle /\ [][EngineNext]_vars

Spec == Idle /\ [][Next]_vars

-----------------------------------------------------------------------------
(* Claims about the key tables                                             *)

\* C4: compatibility is symmetric on the 24 keys of each wheel table:
\* isCompatible(a,b) = isCompatible(b,a) for keys of keyToCamelot, and
\* checkKeyCompatibility(a,b).compatible = checkKeyCompatibility(b,a).compatible
\* for keys of CAMELOT_WHEEL.
C4_Symmetric ==
    /\ (key1 \in WheelKeysHowler /\ key2 \in WheelKeysHowler) => compat12 = compat21
    /\ (key1 \in WheelKeys /\ key2 \in WheelKeys) => check12.compatible = check21.compatible

\* a query of two different keys defined in both tables: adjacent on the
\* wheel of keyToCamelot, five steps apart on CAMELOT_WHEEL
C4_Witness ==
    /\ key1 = <<"B","b","m">> /\ key2 = <<"B","m">>
    /\ key1 \in WheelKeysHowler /\ key2 \in WheelKeysHowler
    /\ key1 \in WheelKeys /\ key2 \in WheelKeys
    /\ compat12 /\ compat21
    /\ ~check12.compatible /\ ~check21.compatible

\* C5: CamelotWheel.isCompatible('Am','C') is true and
\* CamelotWheel.isCompatible('Am','F#') is false.
C5_KnownFacts ==
    /\ (key1 = <<"A","m">> /\ key2 = <<"C">>) => compat12 = TRUE
    /\ (key1 = <<"A","m">> /\ key2 = <<"F","#">>) => compat12 = FALSE

\* C6: checkKeyCompatibility('Am','C').compatible is true (same wheel number)
\* and checkKeyCompatibility('Am','F#').compatible is false.
C6_KnownFacts ==
    /\ (key1 = <<"A","m">> /\ key2 = <<"C">>) =>
            (check12.compatible = TRUE /\ check12.reason = "Relative major/minor")
    /\ (key1 = <<"A","m">> /\ key2 = <<"F","#">>) => check12.compatible = FALSE

\* both queries of C6 have been made in turn
C6_Witness ==
    /\ key1 = <<"A","m">> /\ key2 = <<"F","#">>
    /\ check12.reason = "Dissonant"
    /\ check21.compatible = FALSE

-----------------------------------------------------------------------------
(* Claims about the planner                                                *)

\* C3: every plan of either planner has mixOutPoint >= duration: a transition
\* never starts before the current track has played one crossfade-length.
C3_MixOutAtLeastDuration ==
    /\ planTiming.currentOut >= planTiming.duration
    /\ planTimingEngine # Null => planTimingEngine.mixOutPoint >= planTimingEngine.duration

-----------------------------------------------------------------------------
(* Claims about the caches                                                 *)

LastN(seq, n) == SubSeq(seq, Len(seq) - n + 1, Len(seq))

C8_AnalysisCacheCapped == Len(analysisCache) <= analyzerMaxCacheSize

-----------------------------------------------------------------------------
(* The crossfade guard                                                     *)

\* C1: only one crossfade is active at a time: whatever executeTransition,
\* stop, pause, resume and play calls interleave, a call made while an
\* earlier one has not finished starts no fade, so at no moment two calls
\* are both waiting for their crossfade to end.
C1_OneCrossfade == Cardinality({c \in Calls : calls[c].pc = "fade"}) <= 1

\* C9: when executeTransition completes, the track that was current is
\* stopped and unloaded, currentHowl and currentAnalysis are the former
\* nextHowl and nextAnalysis, nextHowl and nextAnalysis are null, the volume
\* of the new current track was set to 1 and isTransitioning is false.
C9_Settled ==
    [][\A c \in Calls :
         (calls[c].pc = "fade" /\ calls'[c].pc = "done") =>
             /\ howls'[engine.currentHowl].status = "stopped"
             /\ ~howls'[engine.currentHowl].loaded
             /\ engine'.currentHowl = engine.nextHowl
             /\ engine'.currentAnalysis = engine.nextAnalysis
             /\ engine'.nextHowl = 0
             /\ engine'.nextAnalysis = 0
             /\ howls'[engine'.currentHowl].volume = 10
             /\ ~engine'.isTransitioning]_vars

\* a transition that started with a current and a prepared next track has
\* just completed: the incoming track is the current one and plays, the
\* outgoing one is unloaded
C9_Witness ==
    \E c \in Calls :
        /\ calls[c].pc = "done"
        /\ calls[c].ready
        /\ engine.currentHowl # 0
        /\ howls[engine.currentHowl].status = "playing"
        /\ \E h \in HowlIds :
              h # engine.currentHowl /\ howls[h].trackId # 0 /\ ~howls[h].loaded

\* C10: transitions run to completion: a call that passed the guard with a
\* current and a prepared next track reaches the role swap and returns,
\* whatever stop, pause, resume and setVolume calls interleave with it; it
\* never ends in an exception instead.
C10_RunsToCompletion == \A c \in Calls : ~(calls[c].pc = "threw" /\ calls[c].ready)

-----------------------------------------------------------------------------
(* The scheduler after disable()                                           *)

\* C2: after disable() the scheduler does nothing more: a next-track
\* preparation that was in flight when disable() was called and goes on
\* afterwards does not set nextTrackData, does not call engine.prepareNext
\* and leads neither to executeTransition nor to playNext.
C2_DisabledSchedulerDoesNothing ==
    [][\A t \in Ticks :
         (~ctrl.isEnabled /\ ticks[t].pc \in {"url", "load", "prep"} /\ ticks'[t] # ticks[t]) =>
             /\ ctrl'.nextTrackData = ctrl.nextTrackData
             /\ engine'.nextHowl = engine.nextHowl
             /\ player'.playNextCalls = player.playNextCalls
             /\ \A c \in Calls : calls'[c].owner # t]_vars

-----------------------------------------------------------------------------
(* The fallback of the scheduler                                           *)

-----------------------------------------------------------------------------
(* The plan: tempo ratio and mix-out point                                 *)

\* C12: with tempo matching enabled, the plan's tempoRatio is
\* current.tempo / next.tempo when both tempos are known (> 0) and the
\* ratio lies in [0.9, 1.1], bounds included, and 1 in every other case;
\* tempos (100, 140) give 1 and tempos (120, 126) give 120/126.
C12_TempoRatio ==
    planOptions.tempoMatch =>
        LET c == IF planCurrent = Null \/ planNext = Null THEN 0 ELSE planCurrent.tempo
            n == IF planCurrent = Null \/ planNext = Null THEN 0 ELSE planNext.tempo
            r == planTiming.tempoRatio
        IN  /\ IF c > 0 /\ n > 0 /\ 10 * c >= 9 * n /\ 10 * c <= 11 * n
               THEN r[2] # 0 /\ r[1] * n = r[2] * c
               ELSE r = <<1, 1>>
            /\ (c = 100 /\ n = 140) => r = <<1, 1>>
            /\ (c = 120 /\ n = 126) => r = <<120, 126>>

\* the ratio is on a bound of the range, 90/100 or 110/100, and is kept
C12_Witness ==
    /\ planOptions.tempoMatch
    /\ planCurrent # Null /\ planNext # Null
    /\ planCurrent.tempo \in {90, 110} /\ planNext.tempo = 100
    /\ planTiming.tempoRatio = <<planCurrent.tempo, 100>>

-----------------------------------------------------------------------------
(* Claims about the analyser                                               *)

\* C14: the beats returned by beat detection (_detectBeatsAdvanced inside
\* analyze, and detectBeats) have strictly increasing times, and any two
\* consecutive beats are at least minBeatInterval (0.3 s) apart.
C14_BeatsSpaced ==
    /\ (analysis # Null /\ analysis.threw = "") =>
           \A i \in 1..(Len(analysis.beats) - 1) :
               /\ analysis.beats[i].time < analysis.beats[i + 1].time
               /\ analysis.beats[i + 1].time - analysis.beats[i].time >= minBeatInterval
    /\ beatPositions # Null =>
           \A i \in 1..(Len(beatPositions.times) - 1) :
               /\ beatPositions.times[i] < beatPositions.times[i + 1]
               /\ beatPositions.times[i + 1] - beatPositions.times[i] >= minBeatInterval

\* C15: the tempo is 60 divided by the most frequent inter-beat interval,
\* each interval rounded to 0.1 s, and is 0 when there are fewer than two
\* beats; eight or more beats spaced exactly 0.5 s apart give a tempo of 120.
C15_TempoFromCommonInterval ==
    LET n == Len(tempoBeats)
        interval(i) == tempoBeats[i + 1].time - tempoBeats[i].time
        \* interval i in tenths of a second, rounded
        rounded(i) == RoundTenths(interval(i), tempoRoundsUp[i + 1])
        values == {rounded(i) : i \in 1..(n - 1)}
        count(r) == Cardinality({i \in 1..(n - 1) : rounded(i) = r})
    IN  /\ n < 2 => tempo = <<0, 1>>
        /\ n >= 2 =>
              \E r \in values :
                  /\ r > 0
                  /\ tempo = <<600, r>>
                  /\ \A q \in values : count(q) <= count(r)
        /\ (n >= 8 /\ \A i \in 1..(n - 1) : interval(i) = 10) =>
              tempo[1] = 120 * tempo[2]

\* nine beats, the first intervals of 0.15 s and then five of 0.5 s: 0.5 s is
\* the most frequent interval but not the first one met; the tempo is 120
C15_Witness ==
    /\ Len(tempoBeats) = 9
    /\ tempoBeats[2].time - tempoBeats[1].time = 3
    /\ Cardinality({i \in 1..8 : tempoBeats[i + 1].time - tempoBeats[i].time = 10}) = 5
    /\ tempoBeats[9].time - tempoBeats[8].time = 3
    /\ tempo = <<600, 5>>

\* C16: analysing a zero-length buffer or an all-silent buffer does not throw
\* and returns an analysis with tempo 0 and no beats.
C16_SilenceHasNoBeats ==
    (analysis # Null /\ \A i \in 1..Len(frames) : frames[i] = 0) =>
        /\ analysis.threw = ""
        /\ analysis.tempo = <<0, 1>>
        /\ analysis.beats = <<>>

\* a silent buffer long enough for the beat loop to run was analysed
C16_Witness ==
    /\ Len(frames) >= 5
    /\ \A i \in 1..Len(frames) : frames[i] = 0
    /\ analysis # Null
    /\ analysis.threw = ""
    /\ Len(analysis.energyEnvelope) >= 3
    /\ analysis.beats = <<>>

-----------------------------------------------------------------------------
(* Claims about the engine without an AudioContext                         *)

\* a loadTrack awaited by playTrack, or by a lookahead tick, can answer with
\* a trackData (as long as the model has room for its Howl and its calls)
CanLoad ==
    LET room == /\ howlsCreated < MaxHowls
                /\ playsPending < MaxPlays
                /\ player.playNextCalls < MaxPlayNext
    IN  /\ (playTracks # {} /\ room) => ENABLED PlayTrackLoaded
        /\ \A t \in Ticks :
               (ticks[t].pc = "load" /\ room /\ \E c \in Calls : FreeCall(c)) =>
                   ENABLED TickLoad

\* C17: when the AudioContext could not be created (audioContext is null)
\* the engine degrades instead of failing: a loadTrack that is awaited still
\* completes without throwing, so that play, prepareNext and executeTransition
\* go on with volume-only fades.
C17_DegradesWithoutAudioContext == engine.audioContext = "none" => CanLoad

\* the same with an AudioContext
C17_LoadsWithAudioContext == engine.audioContext # "none" => CanLoad

-----------------------------------------------------------------------------
(* Claims about the crossfade curves                                       *)

\* the first step of a crossfade: step 0 of the scheduled ramps, step 1 of
\* the volume timer
FirstStep == IF fade.mode = "ramp" THEN 0 ELSE 1

\* from one step of a crossfade to the next the outgoing gain does not
\* increase and the incoming gain does not decrease
FadeMonotonic ==
    [][(fade.mode \in {"ramp", "volume"} /\ fade.step >= FirstStep
            /\ fade'.step = fade.step + 1) =>
           /\ fade'.currentGain <= fade.currentGain
           /\ fade'.nextGain >= fade.nextGain]_vars

\* at its first step a crossfade has outgoing gain 1 and incoming gain at
\* most the floor
FadeStartsAtFull ==
    (fade.mode \in {"ramp", "volume"} /\ fade.step = FirstStep) =>
        /\ fade.currentGain = Unit
        /\ fade.nextGain <= gainFloor

\* after its last step a crossfade has outgoing gain at most the floor and
\* incoming gain 1, and the volume timer has run ceil(duration x 60) steps
FadeEndsAtFull ==
    /\ fade.mode \in {"rampDone", "volumeDone"} =>
           /\ fade.currentGain <= gainFloor
           /\ fade.nextGain = Unit
    /\ fade.mode = "rampDone" => fade.step = 60
    /\ fade.mode = "volumeDone" =>
           /\ 100 * fade.step >= 60 * fade.duration
           /\ 100 * (fade.step - 1) < 60 * fade.duration

\* C18: over one crossfade (steps 0..60 of _executeCrossfade, steps
\* 1..ceil(duration x 60) of _volumeCrossfade) the outgoing gain never
\* increases and the incoming gain never decreases from one step to the next;
\* the crossfade starts with outgoing gain 1 and incoming gain at most the
\* floor 0.001, and ends with outgoing gain at most the floor and incoming
\* gain 1; the volume timer stops after exactly ceil(duration x 60) steps.
C18_CrossfadeCurves == FadeMonotonic /\ []FadeStartsAtFull /\ []FadeEndsAtFull

-----------------------------------------------------------------------------
(* Further claims about the keys                                           *)

\* C19: checkKeyCompatibility(k1, k2).compatible is true exactly when both
\* keys are defined and they are the same key, or have the same wheel number,
\* or adjacent wheel numbers, or the same letter and a circular wheel distance
\* of at most 3; every other pair is incompatible, keys of different letters
\* two or more steps apart and pairs with an undefined key included.
C19_CompatibleExactly ==
    LET defined == HasKey(CAMELOT_WHEEL, key1) /\ HasKey(CAMELOT_WHEEL, key2)
        k1 == Lookup(CAMELOT_WHEEL, key1)
        k2 == Lookup(CAMELOT_WHEEL, key2)
        steps == Min(Abs(k1.number - k2.number), 12 - Abs(k1.number - k2.number))
    IN  check12.compatible <=>
            /\ defined
            /\ \/ key1 = key2
               \/ k1.number = k2.number
               \/ steps = 1
               \/ k1.letter = k2.letter /\ steps <= 3

\* C20: for keys of the wheel, getEnergyTransition(from, to) is 'boost'
\* exactly when both keys have the same letter and to is one step up the
\* 12-position wheel (12 wrapping to 1), 'drop' exactly when same letter and
\* one step down (1 wrapping to 12), and 'neutral' otherwise, also for names
\* that are no keys; hence boost(a, b) iff drop(b, a), and every boost or drop
\* pair is isCompatible.
C20_EnergyTransition ==
    LET defined == key1 \in WheelKeysHowler /\ key2 \in WheelKeysHowler
        from == Lookup(keyToCamelot, key1)
        to == Lookup(keyToCamelot, key2)
        position(camelot) == DigitVal(camelot[1]) * 10 + DigitVal(camelot[2])
        sameLetter == from[3] = to[3]
        up == sameLetter /\ position(to) = (position(from) % 12) + 1
        down == sameLetter /\ position(from) = (position(to) % 12) + 1
    IN  /\ ~defined => energy12 = "neutral"
        /\ defined =>
              /\ energy12 = (IF up THEN "boost" ELSE IF down THEN "drop" ELSE "neutral")
              /\ (energy12 = "boost") <=> (energy21 = "drop")
              /\ energy12 \in {"boost", "drop"} => compat12

\* the query (G#m, Am): 12 to 1 on the wheel of keyToCamelot, a boost one
\* way and a drop the other way
C20_Witness ==
    /\ key1 \in WheelKeysHowler /\ key2 \in WheelKeysHowler
    /\ Lookup(keyToCamelot, key1) = <<"1", "2", Lookup(keyToCamelot, key2)[3]>>
    /\ Lookup(keyToCamelot, key2)[1] = "0" /\ Lookup(keyToCamelot, key2)[2] = "1"
    /\ energy12 = "boost"
    /\ energy21 = "drop"
    /\ compat12

-----------------------------------------------------------------------------
(* Claims about analyzeTrackWaveform                                       *)

\* C21: for every track length, analyzeTrackWaveform's outroTrimPoint is
\* either the track duration (no drop found) or a time inside the scanned
\* outro window, the last min(10 s, 20% of duration) of the track.
C21_OutroInTail ==
    LET window == Min(Secs(10), wave.duration \div 5)
        point == wave.result.outroTrimPoint
    IN  \/ point = wave.duration
        \/ (wave.duration - window <= point /\ point <= wave.duration)

-----------------------------------------------------------------------------
(* Claims about the lookahead scheduler                                    *)

\* C22: a scheduler tick does nothing when the controller is disabled or
\* the engine has no current track, and a tick starts preparing the next
\* queued track (getStreamUrl, loadTrack, prepareNext) only when the
\* remaining time of the current track is strictly between 10 s and 30 s
\* and nextTrackData is null.
C22_TickGuards ==
    [][\A t \in Ticks :
         LET fires ==
                 \E r \in Remainings, n \in 0..NumTracks, c \in Calls :
                     /\ ctrl.timers > 0 /\ ticks[t].pc = "idle" /\ FreeCall(c)
                     /\ (~ctrl.isEnabled \/ engine.currentHowl = 0)
                     /\ Become(CheckTransition(W, t, r, n, c))
             prepares == ticks[t].pc = "idle" /\ ticks'[t].pc = "url"
         IN  /\ fires =>
                    /\ UNCHANGED <<engine, howls, ctrl, ticks, player, trackCache>>
                    /\ UNCHANGED <<howlsCreated, playsPending, playTracks>>
                    /\ \A c \in Calls : calls'[c] \in {calls[c], IdleCall}
             /\ prepares =>
                    /\ ctrl.isEnabled /\ engine.currentHowl # 0
                    /\ ctrl.nextTrackData = NoData
                    /\ ticks'[t].remaining > 10 /\ ticks'[t].remaining < 30
                    /\ ticks'[t].track # 0]_vars

\* a tick found 12 s remaining and nothing prepared: it waits for
\* getStreamUrl of the next queued track
C22_Witness ==
    \E t \in Ticks :
        /\ ticks[t].pc = "url"
        /\ ticks[t].remaining = 12
        /\ ticks[t].track # 0
        /\ ctrl.isEnabled
        /\ ctrl.nextTrackData = NoData
        /\ engine.currentHowl # 0

-----------------------------------------------------------------------------
(* Claims about the adaptive threshold                                     *)

\* C23: for every flux sequence and every index i, the adaptive threshold
\* at i is 1.5 times the mean of the flux samples at the indices i-10 ..
\* i+10, both ends included and clipped to the sequence, and a sample is
\* reported as a beat only if its flux exceeds that threshold and is
\* strictly greater than both neighbours.
C23_SymmetricThreshold ==
    \A k \in 1..Len(beatFlux) :
        LET first == Max(1, k - 10)
            last == Min(Len(beatFlux), k + 10)
            sum == SumSeq(beatFlux, first, last)
            count == last - first + 1
            reported == \E j \in 1..Len(beatsFound.beats) : beatsFound.beats[j].time = k - 1
        IN  /\ beatThreshold[k][1] * 2 * count = 3 * sum * beatThreshold[k][2]
            /\ reported =>
                   /\ beatFlux[k] * 2 * count > 3 * sum
                   /\ k > 1 /\ k < Len(beatFlux)
                   /\ beatFlux[k] > beatFlux[k - 1]
                   /\ beatFlux[k] > beatFlux[k + 1]

\* C24: at most one lookahead interval timer runs per controller and none
\* runs after disable(): for any sequence of enable() and disable() calls,
\* enable() twice in a row included, no periodic tick remains scheduled
\* once the last disable() has returned.
C24_OneTimer ==
    /\ ctrl.timers <= 1
    /\ ~ctrl.isEnabled => ctrl.timers = 0

-----------------------------------------------------------------------------
(* Claims about executeTransition                                          *)

\* C25: the isTransitioning flag never stays stuck: whenever an
\* executeTransition call that passed the guard ends, by returning or by
\* throwing, isTransitioning is false afterwards.
C25_FlagReleased ==
    \A c \in Calls : calls[c].pc \in {"done", "threw"} => ~engine.isTransitioning

\* C26: at most one next-track preparation is in flight at a time: while a
\* preparation started by an earlier tick has not finished (its
\* getStreamUrl, loadTrack or prepareNext is pending), no later tick starts
\* another one.
C26_OnePreparation ==
    Cardinality({t \in Ticks : ticks[t].pc \in {"url", "load", "prep"}}) <= 1

\* C27: the hard-change fallback fires at most once per current track:
\* while the engine's current track is unchanged and no next track is
\* prepared, successive scheduler ticks call player.playNext() no more than
\* once in total.
C27_FallbackOnce ==
    player.fallbacks <= 1

-----------------------------------------------------------------------------
(* Claims about the plan and the end of the track                          *)

\* C28: a planned crossfade fits inside the current track: for every
\* current track at least twice as long as the crossfade and every beat
\* list, mixOutPoint + duration <= current track duration under the default
\* policy (crossfadeDuration 16 s and transitionOverlap 0.95 in
\* AutoMixEngineHowler, crossfadeDuration 12 s in AutoMixEngine).
C28_FadeFits ==
    LET trackDuration == IF planCurrent = Null \/ planNext = Null
                         THEN planHowlDuration
                         ELSE planCurrent.duration
    IN  /\ (/\ planOptions.crossfadeDuration = Secs(16)
            /\ planOptions.transitionOverlap = 95
            /\ trackDuration >= 2 * Secs(16)) =>
               planTiming.currentOut + planTiming.duration <= trackDuration
        /\ (/\ planCurrent # Null
            /\ planOptions.crossfadeDuration = Secs(12)
            /\ planCurrent.duration >= 2 * Secs(12)) =>
               planTimingEngine.mixOutPoint + planTimingEngine.duration <= planCurrent.duration

\* C29: the track that executeTransition stops and unloads when its
\* crossfade ends is the track that was current when that transition
\* started, and the track it promotes to current is the one that was
\* prepared when it started, even if play() or prepareNext() is called
\* while the crossfade is in progress.
C29_SwapsWhatItStarted ==
    [][\A c \in Calls :
         (calls[c].pc = "fade" /\ calls[c].owner # 0 /\ calls'[c].pc = "done") =>
             /\ \A h \in HowlIds : (howls[h].loaded /\ ~howls'[h].loaded) => h = calls[c].from
             /\ engine'.currentHowl = calls[c].to]_vars

-----------------------------------------------------------------------------
(* Claims about trackCache and released Howls                              *)

\* C30: no entry of trackCache refers to a released track: after any
\* sequence of loadTrack, play and executeTransition calls, every track
\* handle that loadTrack returns from the cache has a Howl that has not
\* been unloaded.
C30_CacheHoldsLoadedHowls ==
    \A i \in 1..Len(trackCache) : howls[trackCache[i].howl].loaded

====
